---- MODULE Spec2Model ----
(***************************************************************************)
(* Model of the MCP gateway in src/backend/app.py: the ConnectionManager   *)
(* (connect, disconnect, get_all_tools, execute_tool) as it is driven by   *)
(* concurrent asyncio requests.  One action is one run of a coroutine      *)
(* between two awaits, so every action is atomic exactly where the event   *)
(* loop makes the code atomic.                                             *)
(*                                                                         *)
(* Strings are sequences of tokens: a token is a piece of text the code    *)
(* never looks inside ("https://", "gitmcp.io", ".py", "/sse", " ", a      *)
(* quote, a word), so startswith, endswith, "in" and shlex.split are       *)
(* computed on the sequence.  Identifiers and tool names are sequences of  *)
(* single characters.                                                      *)
(***************************************************************************)
EXTENDS Integers, Sequences, FiniteSets, TLC

\* ------------------------------------------------------------------ bounds
\* Total number of requests (connect, disconnect, execute) the clients issue.
MaxOps == 3
\* Total number of list_tools / list_resources / list_prompts calls that fail.
MaxFetchFailures == 1

\* Request slots: the coroutines that may be alive on the event loop at once.
Procs == {"req1", "req2"}

\* ------------------------------------------------------- program constants
MAX_TOOL_RESULT_LENGTH == 8000
\* sanitized_name[:63]
MaxNameLen == 63
None == [none |-> TRUE]

\* --------------------------------------------------------- string helpers
StartsWith(s, tok) == Len(s) > 0 /\ s[1] = tok
EndsWith(s, tok) == Len(s) > 0 /\ s[Len(s)] = tok
Contains(s, tok) == \E i \in 1..Len(s) : s[i] = tok
HasHttpPrefix(s) == StartsWith(s, "http://") \/ StartsWith(s, "https://")

\* shlex.split(target, posix=True): blanks separate the parts, a quote
\* opens or closes a quoted stretch in which blanks are kept, the quotes
\* themselves are dropped, and an unclosed quote is a ValueError.
\* st = [parts, cur, inWord, inQuote]
RECURSIVE ShlexScan(_, _, _)
ShlexScan(s, i, st) ==
    IF i > Len(s)
    THEN st
    ELSE LET c == s[i] IN
         IF c = "'"
         THEN ShlexScan(s, i + 1, [st EXCEPT !.inQuote = ~st.inQuote, !.inWord = TRUE])
         ELSE IF c = " " /\ ~st.inQuote
         THEN ShlexScan(s, i + 1,
                 IF st.inWord
                 THEN [st EXCEPT !.parts = Append(st.parts, st.cur),
                                 !.cur = <<>>, !.inWord = FALSE]
                 ELSE st)
         ELSE ShlexScan(s, i + 1, [st EXCEPT !.cur = Append(st.cur, c), !.inWord = TRUE])

shlex_split(s) ==
    LET st == ShlexScan(s, 1, [parts |-> <<>>, cur |-> <<>>, inWord |-> FALSE, inQuote |-> FALSE])
    IN IF st.inQuote
       THEN [error |-> TRUE, parts |-> <<>>]
       ELSE [error |-> FALSE,
             parts |-> IF st.inWord THEN Append(st.parts, st.cur) ELSE st.parts]

\* ------------------------------------------------------------ environment
\* Scripts that exist on disk, and commands found on PATH.
ExistingScripts == { <<"tools_server", ".py">> }
CommandsOnPath == { <<"npx">> }

\* _find_script: the first existing candidate wins, else FileNotFoundError.
\* The candidates are all spellings of script_name under the working
\* directory, so the script is found exactly when it exists.
find_script(script_name) ==
    IF script_name \in ExistingScripts
    THEN [found |-> TRUE, path |-> script_name]
    ELSE [found |-> FALSE, path |-> <<>>]

\* shutil.which
which(cmd_name) == IF cmd_name \in CommandsOnPath THEN cmd_name ELSE <<>>

\* Targets a caller may pass.
Targets ==
    { <<"tools_server", ".py">>,
      <<"nope", ".py">>,
      <<"npx", " ", "server">>,
      <<>>,
      <<"'", "npx">>,
      <<"https://", "host">>,
      <<"https://", "gitmcp.io", "/repo", ".py">> }

\* Kinds a caller may pass ("ws" stands for any unknown kind).
Types == {"stdio", "sse", "http", "ws"}

\* Connection ids (caller-assigned).
ConnIds == { <<"a", "-">>, <<"a", "_">> }

\* What a server may answer to list_tools / list_resources / list_prompts.
\* (An empty list also arises, from a failed fetch.)
ToolLists == { << <<"r">> >> }
ResourceLists == { << <<"u">> >> }
PromptLists == { << <<"p">> >> }

\* --------------------------------------------------------------- exceptions
HTTPException(status, cause) == [exc |-> "HTTPException", status |-> status, cause |-> cause]
ValueError(cause) == [exc |-> "ValueError", status |-> 0, cause |-> cause]
OtherError(cause) == [exc |-> "Exception", status |-> 0, cause |-> cause]
\* logger.error(... type(e).__name__ ...) inside connect, where the parameter
\* `type` (a str) shadows the builtin: calling it raises TypeError, which
\* replaces the exception being handled.
TypeError(cause) == [exc |-> "TypeError", status |-> 0, cause |-> cause]

\* Failures raised by the checks that precede every transport open.
ValidationCauses == {"invalid_url", "script_not_found", "invalid_syntax",
                     "empty_command", "unknown_type"}

\* ------------------------------------------------- connect_mcp (endpoint)
\* The endpoint's own auto-correction of req.type before manager.connect.
connect_mcp_type(target, type) ==
    IF EndsWith(target, ".py") \/ ~HasHttpPrefix(target)
    THEN "stdio"
    ELSE IF Contains(target, "gitmcp.io")
    THEN "sse"
    ELSE type

\* --------------------------------------- connect: 1. auto-detection
auto_detect(target, type) ==
    IF Contains(target, "gitmcp.io")
    THEN [type |-> "sse",
          target |-> IF EndsWith(target, "/sse") THEN target ELSE Append(target, "/sse"),
          err |-> None]
    ELSE IF EndsWith(target, ".py") \/ ~HasHttpPrefix(target)
    THEN [type |-> IF type \notin {"stdio", "sse"} THEN "stdio" ELSE type,
          target |-> target, err |-> None]
    ELSE IF type = "http" \/ type = "sse"
    THEN [type |-> type, target |-> target,
          err |-> IF ~HasHttpPrefix(target) THEN ValueError("invalid_url") ELSE None]
    ELSE [type |-> type, target |-> target, err |-> None]

\* --------------------------------------- connect: 2. transport logic
\* What the code decides before the first await: the context manager it is
\* about to enter, or the exception it raises instead.
\* launchable: whether the command names something the OS can start.
stdio_command(target) ==
    IF EndsWith(target, ".py")
    THEN LET f == find_script(target) IN
         IF f.found
         THEN [err |-> None, launchable |-> TRUE]
         ELSE [err |-> HTTPException(400, "script_not_found"), launchable |-> FALSE]
    ELSE LET sp == shlex_split(target) IN
         IF sp.error
         THEN [err |-> HTTPException(400, "invalid_syntax"), launchable |-> FALSE]
         ELSE IF sp.parts = <<>>
         THEN [err |-> ValueError("empty_command"), launchable |-> FALSE]
         ELSE IF sp.parts[1] \in { <<"python">>, <<"python3">>, <<"python.exe">> }
         THEN LET args == Tail(sp.parts) IN
              IF args # <<>> /\ EndsWith(args[1], ".py") /\ ~find_script(args[1]).found
              THEN [err |-> HTTPException(400, "script_not_found"), launchable |-> FALSE]
              ELSE [err |-> None, launchable |-> TRUE]
         ELSE [err |-> None, launchable |-> which(sp.parts[1]) # <<>>]

transport_plan(target, type) ==
    IF type = "stdio"
    THEN LET c == stdio_command(target) IN
         [err |-> c.err, ctx |-> "stdio_client", openable |-> c.launchable]
    ELSE IF type = "sse"
    THEN [err |-> None, ctx |-> "sse_client", openable |-> HasHttpPrefix(target)]
    ELSE IF type = "http"
    THEN [err |-> None, ctx |-> "streamable_http_client", openable |-> HasHttpPrefix(target)]
    ELSE [err |-> ValueError("unknown_type"), ctx |-> "none", openable |-> FALSE]

\* ------------------------------------------------------------------- state
VARIABLES
    connections,   \* ConnectionManager.connections: the dict, in insertion order
    exit_stack,    \* per AsyncExitStack: the contexts it holds, oldest first
    nextSid,       \* number of the next AsyncExitStack, one per connect attempt
    pc,            \* per request: the await it is suspended at
    loc,           \* per request: the coroutine's local variables
    last,          \* what the operation that finished last returned or raised
                   \* (forgotten when the next request arrives)
    nOps,          \* requests issued so far
    slots,         \* the request slots in use: one when the clients send their
                   \* requests one after the other, all when they overlap them
    nFetchFailures,\* discovery fetches that have failed so far
    probe,         \* a request of the tool catalog and its answer
    messages,      \* the rows of the chat session in the database, oldest first
    events,        \* the events the response being streamed has yielded
    turn,          \* the response generator: where it is suspended, its locals
    llm,           \* the provider clients that exist and ACTIVE_PROVIDER
    title          \* the session's title and the title tasks of its requests

\* What the ConnectionManager's operations leave alone.
aside == << probe, messages, events, turn, llm, title >>

vars == << connections, exit_stack, nextSid, pc, loc, last, nOps, nFetchFailures, slots, aside >>

\* Every request may be a connect, which takes the next number.
Sids == 1..MaxOps

\* ------------------------------------------------- the connections dict
\* A Python dict keeps insertion order; assigning to an existing key keeps
\* the key's position.
HasKey(d, k) == \E i \in 1..Len(d) : d[i].key = k
KeyIndex(d, k) == CHOOSE i \in 1..Len(d) : d[i].key = k
Get(d, k) == d[KeyIndex(d, k)]
Keys(d) == { d[i].key : i \in 1..Len(d) }
CountKey(d, k) == Cardinality({ i \in 1..Len(d) : d[i].key = k })
Entries(d) == { d[i] : i \in 1..Len(d) }

\* Mutant: the assignment adds an entry without replacing the one of the key.
DictAppend(d, k, v) == Append(d, v)

\* self.connections[k] = v
DictSet(d, k, v) ==
    IF HasKey(d, k)
    THEN [d EXCEPT ![KeyIndex(d, k)] = v]
    ELSE Append(d, v)

\* Mutant: the deletion empties the dict.
DictClear(d, k) == <<>>

\* del self.connections[k]   (the caller has checked that k is a key)
DictDel(d, k) ==
    LET i == KeyIndex(d, k) IN
    SubSeq(d, 1, i - 1) \o SubSeq(d, i + 1, Len(d))

\* MCPConnection(name, session, exit_stack, tools, resources, prompts); the
\* session and its exit stack are named by the attempt's number.
MCPConnection(name, sid, tools, resources, prompts) ==
    [key |-> name, sid |-> sid, tools |-> tools, resources |-> resources, prompts |-> prompts]

\* ------------------------------------------------------------ AsyncExitStack
\* What a context manager holds once entered: stdio_client a server process
\* and its pipes, sse_client and streamable_http_client a connection (all
\* three a transport channel), ClientSession the capability session.
Holds(cm) == IF cm = "ClientSession" THEN "session" ELSE "transport"

\* A context entered on a stack: what it holds and its position of entry.
Ctx(cm, stack) == [kind |-> Holds(cm), ord |-> Len(stack) + 1]

\* exit_stack.enter_async_context(...)
Push(stack, cm) == Append(stack, Ctx(cm, stack))

\* Mutant: aclose exits the contexts oldest first.
PopOldest(stack) == [ctx |-> Head(stack), rest |-> Tail(stack)]

\* AsyncExitStack.aclose pops the most recently entered context and exits it.
PopContext(stack) ==
    [ctx |-> stack[Len(stack)], rest |-> SubSeq(stack, 1, Len(stack) - 1)]

\* aclose run to its end: the contexts in the order in which they are exited.
RECURSIVE AcloseOrder(_)
AcloseOrder(stack) ==
    IF stack = <<>>
    THEN <<>>
    ELSE LET pop == PopContext(stack) IN << pop.ctx >> \o AcloseOrder(pop.rest)

Reverse(s) == [i \in 1..Len(s) |-> s[Len(s) + 1 - i]]

\* --------------------------------------------------------------- locals
NoLoc == [op |-> "none"]
NoResult == [op |-> "none"]

ConnectPcs == {"c_open", "c_open2", "c_session", "c_init", "c_tools",
               "c_resources", "c_prompts"}

InitManager ==
    /\ connections = <<>>
    /\ exit_stack = [s \in Sids |-> <<>>]
    /\ nextSid = 1
    /\ pc = [p \in Procs |-> "idle"]
    /\ loc = [p \in Procs |-> NoLoc]
    /\ last = NoResult
    /\ nOps = 0
    /\ nFetchFailures = 0

\* class LLMProvider.
GROQ == "groq"
GEMINI == "gemini"

\* Module start-up: ACTIVE_PROVIDER is Groq if its client was built, else
\* Gemini if its client was built, else None (written "none").
Startup(clients) ==
    [clients |-> clients,
     active |-> IF GROQ \in clients THEN GROQ
                ELSE IF GEMINI \in clients THEN GEMINI ELSE "none"]

\* create_session: the title is the one the client gave; no request has
\* queued a title task.
NoTitle == [value |-> "given", tasks |-> <<>>]

\* No response is being streamed.
NoTurn == [at |-> "idle", n |-> 0]

\* Nobody has chatted yet.
NoChat ==
    /\ messages = <<>>
    /\ events = <<>>
    /\ turn = NoTurn
    /\ llm = Startup({GROQ})
    /\ title = NoTitle

\* The clients wait for each answer before they send the next request.
Init == InitManager /\ slots = {"req1"} /\ probe = None /\ NoChat

\* The clients overlap their requests.
InitAsync == InitManager /\ slots = Procs /\ probe = None /\ NoChat

\* ---------------------------------------------------------------- connect
\* str(e) of the exception connect caught: Starlette renders an
\* HTTPException as "<status>: <detail>", anything else as its message.
ExcStr(e) == IF e.exc = "HTTPException" THEN << e.status, e.cause >> ELSE << e.cause >>

\* raise HTTPException(status_code=500, detail=f"Connection Failed: {str(e)}")
ConnectFailed(e) ==
    [exc |-> "HTTPException", status |-> 500, detail |-> << "Connection Failed: " >> \o ExcStr(e)]

\* except Exception as e: await exit_stack.aclose(), then the raise.  The
\* stack of a failing attempt is referenced by nobody else, so the exits of
\* aclose are folded into the failing step.  held: what the stack held when
\* the exception arrived; released: the contexts in their order of exit.
ConnectExcept(p, sid, cid, e) ==
    /\ exit_stack' = [exit_stack EXCEPT ![sid] = <<>>]
    /\ last' = [op |-> "connect", ok |-> FALSE, cid |-> cid, sid |-> sid,
                cause |-> e.cause, held |-> exit_stack[sid],
                released |-> AcloseOrder(exit_stack[sid]),
                raised |-> ConnectFailed(e)]
    /\ loc' = [loc EXCEPT ![p] = NoLoc]
    /\ pc' = [pc EXCEPT ![p] = "idle"]

\* connect, from its entry to its first await: auto-detection, validation,
\* command resolution.  Nothing is opened yet; the coroutine either raises or
\* suspends entering the transport's context manager on `target`.
ConnectStart(p, cid, target, type) ==
    /\ p \in slots
    /\ pc[p] = "idle"
    /\ nOps < MaxOps
    /\ nOps' = nOps + 1
    /\ nextSid' = nextSid + 1
    /\ LET n == auto_detect(target, type)
           plan == transport_plan(n.target, n.type)
           e == IF n.err # None THEN n.err ELSE plan.err
       IN IF e # None
          THEN ConnectExcept(p, nextSid, cid, e)
          ELSE /\ loc' = [loc EXCEPT ![p] =
                        [op |-> "connect", cid |-> cid, sid |-> nextSid,
                         reqTarget |-> target, ctx |-> plan.ctx, openable |-> plan.openable,
                         srv |-> None, failed |-> {},
                         tools |-> <<>>, resources |-> <<>>, prompts |-> <<>>]]
               /\ pc' = [pc EXCEPT ![p] = "c_open"]
               /\ last' = NoResult
               /\ UNCHANGED exit_stack
    /\ UNCHANGED << connections, nFetchFailures, slots, aside >>

\* POST /api/mcp/connect: the endpoint corrects req.type, then calls connect.
connect_mcp(p, cid, target, type) ==
    ConnectStart(p, cid, target, connect_mcp_type(target, type))

\* Mutant: the URL of a network transport is validated only once the
\* transport's context has been entered.
ConnectOpenThenValidate(p) ==
    /\ pc[p] = "c_open"
    /\ LET sid == loc[p].sid IN
       \/ /\ loc[p].openable
          /\ loc[p].ctx = "stdio_client"
          /\ exit_stack' = [exit_stack EXCEPT ![sid] = Push(@, loc[p].ctx)]
          /\ loc' = [loc EXCEPT ![p].reqTarget = <<>>, ![p].openable = TRUE]
          /\ pc' = [pc EXCEPT ![p] = "c_open2"]
          /\ UNCHANGED last
       \/ /\ loc[p].openable
          /\ loc[p].ctx # "stdio_client"
          /\ LET held == Push(exit_stack[sid], loc[p].ctx)
                 e == ValueError("invalid_url")
             IN last' = [op |-> "connect", ok |-> FALSE, cid |-> loc[p].cid, sid |-> sid,
                         cause |-> e.cause, held |-> held,
                         released |-> AcloseOrder(held),
                         raised |-> ConnectFailed(e)]
          /\ loc' = [loc EXCEPT ![p] = NoLoc]
          /\ pc' = [pc EXCEPT ![p] = "idle"]
          /\ UNCHANGED exit_stack
       \/ ConnectExcept(p, sid, loc[p].cid, HTTPException(500, "transport_failed"))
    /\ UNCHANGED << connections, nextSid, nOps, nFetchFailures, slots, aside >>

\* await exit_stack.enter_async_context(stdio_client | sse_client |
\* streamable_http_client): the transport opens, or the open fails and the
\* inner handler raises HTTPException(500).  The target is not read again
\* (but for logging) once the transport is open.
ConnectOpen(p) ==
    /\ pc[p] = "c_open"
    /\ LET sid == loc[p].sid IN
       \/ /\ loc[p].openable
          /\ exit_stack' = [exit_stack EXCEPT ![sid] = Push(@, loc[p].ctx)]
          /\ loc' = [loc EXCEPT ![p].reqTarget = <<>>, ![p].openable = TRUE]
          /\ pc' = [pc EXCEPT ![p] = IF loc[p].ctx = "stdio_client" THEN "c_open2" ELSE "c_session"]
          /\ UNCHANGED last
       \/ ConnectExcept(p, sid, loc[p].cid, HTTPException(500, "transport_failed"))
    /\ UNCHANGED << connections, nextSid, nOps, nFetchFailures, slots, aside >>

\* The stdio branch enters stdio_client(server_params) a second time (the
\* statement after the try block); read and write are the second pair.
ConnectOpenAgain(p) ==
    /\ pc[p] = "c_open2"
    /\ LET sid == loc[p].sid IN
       \/ /\ exit_stack' = [exit_stack EXCEPT ![sid] = Push(@, loc[p].ctx)]
          /\ pc' = [pc EXCEPT ![p] = "c_session"]
          /\ UNCHANGED << loc, last >>
       \/ ConnectExcept(p, sid, loc[p].cid, OtherError("transport_failed"))
    /\ UNCHANGED << connections, nextSid, nOps, nFetchFailures, slots, aside >>

\* session = await exit_stack.enter_async_context(ClientSession(read, write));
\* a failure goes through the handler that calls type(e).
ConnectSession(p) ==
    /\ pc[p] = "c_session"
    /\ LET sid == loc[p].sid IN
       \/ /\ exit_stack' = [exit_stack EXCEPT ![sid] = Push(@, "ClientSession")]
          /\ pc' = [pc EXCEPT ![p] = "c_init"]
          /\ UNCHANGED << loc, last >>
       \/ ConnectExcept(p, sid, loc[p].cid, TypeError("session_failed"))
    /\ UNCHANGED << connections, nextSid, nOps, nFetchFailures, slots, aside >>

\* Mutant: the session is registered before it is initialized.
ConnectInitRegistersFirst(p) ==
    /\ pc[p] = "c_init"
    /\ connections' = DictSet(connections, loc[p].cid,
                              MCPConnection(loc[p].cid, loc[p].sid, <<>>, <<>>, <<>>))
    /\ \/ /\ \E t \in ToolLists, r \in ResourceLists, pr \in PromptLists :
                loc' = [loc EXCEPT ![p].srv = [tools |-> t, resources |-> r, prompts |-> pr]]
          /\ pc' = [pc EXCEPT ![p] = "c_tools"]
          /\ UNCHANGED << exit_stack, last >>
       \/ ConnectExcept(p, loc[p].sid, loc[p].cid, HTTPException(504, "timeout"))
       \/ ConnectExcept(p, loc[p].sid, loc[p].cid, TypeError("init_failed"))
    /\ UNCHANGED << nextSid, nOps, nFetchFailures, slots, aside >>

\* await asyncio.wait_for(session.initialize(), timeout=30.0): the server
\* answers (and from then on has its lists of tools, resources, prompts), or
\* the wait times out (HTTPException 504), or initialize fails (the handler's
\* own TypeError).
ConnectInit(p) ==
    /\ pc[p] = "c_init"
    /\ \/ /\ \E t \in ToolLists, r \in ResourceLists, pr \in PromptLists :
                loc' = [loc EXCEPT ![p].srv = [tools |-> t, resources |-> r, prompts |-> pr]]
          /\ pc' = [pc EXCEPT ![p] = "c_tools"]
          /\ UNCHANGED << exit_stack, last >>
       \/ ConnectExcept(p, loc[p].sid, loc[p].cid, HTTPException(504, "timeout"))
       \/ ConnectExcept(p, loc[p].sid, loc[p].cid, TypeError("init_failed"))
    /\ UNCHANGED << connections, nextSid, nOps, nFetchFailures, slots, aside >>

\* fetched_tools = (await session.list_tools()).tools, or [] on any failure.
ConnectTools(p) ==
    /\ pc[p] = "c_tools"
    /\ \/ /\ loc' = [loc EXCEPT ![p].tools = loc[p].srv.tools]
          /\ UNCHANGED nFetchFailures
       \/ /\ nFetchFailures < MaxFetchFailures
          /\ nFetchFailures' = nFetchFailures + 1
          /\ loc' = [loc EXCEPT ![p].failed = @ \cup {"tools"}]
    /\ pc' = [pc EXCEPT ![p] = "c_resources"]
    /\ UNCHANGED << connections, exit_stack, nextSid, last, nOps, slots, aside >>

\* Mutant: the handler of a failed resource fetch resets all three lists.
ConnectResourcesResetsAll(p) ==
    /\ pc[p] = "c_resources"
    /\ \/ /\ loc' = [loc EXCEPT ![p].resources = loc[p].srv.resources]
          /\ UNCHANGED nFetchFailures
       \/ /\ nFetchFailures < MaxFetchFailures
          /\ nFetchFailures' = nFetchFailures + 1
          /\ loc' = [loc EXCEPT ![p].failed = @ \cup {"resources"}, ![p].tools = <<>>]
    /\ pc' = [pc EXCEPT ![p] = "c_prompts"]
    /\ UNCHANGED << connections, exit_stack, nextSid, last, nOps, slots, aside >>

\* fetched_resources = (await session.list_resources()).resources, or [].
ConnectResources(p) ==
    /\ pc[p] = "c_resources"
    /\ \/ /\ loc' = [loc EXCEPT ![p].resources = loc[p].srv.resources]
          /\ UNCHANGED nFetchFailures
       \/ /\ nFetchFailures < MaxFetchFailures
          /\ nFetchFailures' = nFetchFailures + 1
          /\ loc' = [loc EXCEPT ![p].failed = @ \cup {"resources"}]
    /\ pc' = [pc EXCEPT ![p] = "c_prompts"]
    /\ UNCHANGED << connections, exit_stack, nextSid, last, nOps, slots, aside >>

\* fetched_prompts = (await session.list_prompts()).prompts, or []; then,
\* without another await, the session is registered and connect returns.
ConnectPrompts(p) ==
    /\ pc[p] = "c_prompts"
    /\ \E fetched \in {TRUE, FALSE} :
         /\ fetched \/ nFetchFailures < MaxFetchFailures
         /\ nFetchFailures' = IF fetched THEN nFetchFailures ELSE nFetchFailures + 1
         /\ LET prompts == IF fetched THEN loc[p].srv.prompts ELSE <<>>
                failed == IF fetched THEN loc[p].failed ELSE loc[p].failed \cup {"prompts"}
                cid == loc[p].cid
            IN /\ connections' = DictSet(connections, cid,
                        MCPConnection(cid, loc[p].sid, loc[p].tools, loc[p].resources, prompts))
               /\ last' = [op |-> "connect", ok |-> TRUE, cid |-> cid, sid |-> loc[p].sid,
                           srv |-> loc[p].srv, failed |-> failed,
                           replaced |-> IF HasKey(connections, cid)
                                        THEN Get(connections, cid).sid ELSE 0]
    /\ loc' = [loc EXCEPT ![p] = NoLoc]
    /\ pc' = [pc EXCEPT ![p] = "idle"]
    /\ UNCHANGED << exit_stack, nextSid, nOps, slots, aside >>

\* asyncio.CancelledError, a BaseException.
CancelledError == [exc |-> "CancelledError", status |-> 0, cause |-> "cancelled"]

\* The task running connect is cancelled while connect is suspended at one
\* of its awaits: CancelledError is raised there.  It is not an Exception,
\* so no `except Exception` of connect catches it, exit_stack.aclose() is
\* not called, and the error leaves connect.  The context being entered at
\* the await is undone by its own manager; those entered before stay on the
\* stack, which nothing refers to any more.
ConnectCancelled(p) ==
    /\ pc[p] \in ConnectPcs
    /\ last' = [op |-> "connect", ok |-> FALSE, cid |-> loc[p].cid, sid |-> loc[p].sid,
                cause |-> CancelledError.cause, held |-> exit_stack[loc[p].sid],
                released |-> <<>>, raised |-> CancelledError]
    /\ loc' = [loc EXCEPT ![p] = NoLoc]
    /\ pc' = [pc EXCEPT ![p] = "idle"]
    /\ UNCHANGED << connections, exit_stack, nextSid, nOps, nFetchFailures, slots, aside >>

\* ------------------------------------------------------------- disconnect
\* disconnect, from its entry to its first await.  An id that is not a key
\* is a no-op.  Otherwise aclose starts on the entry's exit stack: it pops the
\* newest context and awaits its exit; on a stack that is already empty
\* aclose returns at once and the entry is deleted in the same run.
DisconnectStart(p, cid) ==
    /\ p \in slots
    /\ pc[p] = "idle"
    /\ nOps < MaxOps
    /\ nOps' = nOps + 1
    /\ IF ~HasKey(connections, cid)
       THEN /\ last' = [op |-> "disconnect", cid |-> cid, found |-> FALSE, sid |-> 0,
                        raised |-> None]
            /\ UNCHANGED << connections, exit_stack, pc, loc >>
       ELSE LET sid == Get(connections, cid).sid IN
            IF exit_stack[sid] = <<>>
            THEN /\ connections' = DictDel(connections, cid)
                 /\ last' = [op |-> "disconnect", cid |-> cid, found |-> TRUE, sid |-> sid,
                             raised |-> None]
                 /\ UNCHANGED << exit_stack, pc, loc >>
            ELSE /\ exit_stack' = [exit_stack EXCEPT ![sid] = PopContext(@).rest]
                 /\ loc' = [loc EXCEPT ![p] = [op |-> "disconnect", cid |-> cid, sid |-> sid]]
                 /\ pc' = [pc EXCEPT ![p] = "d_aclose"]
                 /\ last' = NoResult
                 /\ UNCHANGED connections
    /\ UNCHANGED << nextSid, nFetchFailures, slots, aside >>

\* aclose resumes after a context has exited and pops the next one.
DisconnectAclose(p) ==
    /\ pc[p] = "d_aclose"
    /\ exit_stack[loc[p].sid] # <<>>
    /\ exit_stack' = [exit_stack EXCEPT ![loc[p].sid] = PopContext(@).rest]
    /\ UNCHANGED << connections, nextSid, pc, loc, last, nOps, nFetchFailures, slots, aside >>

\* aclose resumes with nothing left to exit: del self.connections[connection_id]
\* (KeyError when another disconnect has deleted the key in the meantime).
DisconnectDel(p) ==
    /\ pc[p] = "d_aclose"
    /\ exit_stack[loc[p].sid] = <<>>
    /\ IF HasKey(connections, loc[p].cid)
       THEN /\ connections' = DictDel(connections, loc[p].cid)
            /\ last' = [op |-> "disconnect", cid |-> loc[p].cid, found |-> TRUE,
                        sid |-> loc[p].sid, raised |-> None]
       ELSE /\ last' = [op |-> "disconnect", cid |-> loc[p].cid, found |-> TRUE,
                        sid |-> loc[p].sid, raised |-> OtherError("KeyError")]
            /\ UNCHANGED connections
    /\ loc' = [loc EXCEPT ![p] = NoLoc]
    /\ pc' = [pc EXCEPT ![p] = "idle"]
    /\ UNCHANGED << exit_stack, nextSid, nOps, nFetchFailures, slots, aside >>

\* ------------------------------------------------------------ get_all_tools
Letters == {"a", "b", "c", "d", "e", "f", "g", "h", "i", "j", "k", "l", "m",
            "n", "o", "p", "q", "r", "s", "t", "u", "v", "w", "x", "y", "z",
            "A", "B", "C", "D", "E", "F", "G", "H", "I", "J", "K", "L", "M",
            "N", "O", "P", "Q", "R", "S", "T", "U", "V", "W", "X", "Y", "Z"}
Digits == {"0", "1", "2", "3", "4", "5", "6", "7", "8", "9"}

\* re.sub(r'[^a-zA-Z0-9_]', '_', raw_name)
re_sub(raw) ==
    [i \in 1..Len(raw) |-> IF raw[i] \in Letters \cup Digits \cup {"_"} THEN raw[i] ELSE "_"]

Take(s, n) == SubSeq(s, 1, IF Len(s) < n THEN Len(s) ELSE n)

\* Mutant: the name is cut to 63 before the prefix is added.
sanitized_name_cut_first(conn_id, tool_name) ==
    LET raw == conn_id \o << "_", "_" >> \o tool_name
        sub == Take(re_sub(raw), MaxNameLen)
    IN IF sub[1] \notin Letters
       THEN << "a", "c", "t", "i", "o", "n", "_" >> \o sub
       ELSE sub

\* raw_name = f"{conn_id}__{tool.name}", sanitized, prefixed, cut to 63.
sanitized_name(conn_id, tool_name) ==
    LET raw == conn_id \o << "_", "_" >> \o tool_name
        sub == re_sub(raw)
        pre == IF sub[1] \notin Letters
               THEN << "a", "c", "t", "i", "o", "n", "_" >> \o sub
               ELSE sub
    IN Take(pre, MaxNameLen)

\* The tools of one connection, appended to (all_tools, tool_map).
RECURSIVE AddTools(_, _, _, _)
AddTools(acc, conn, tools, i) ==
    IF i > Len(tools)
    THEN acc
    ELSE LET name == sanitized_name(conn.key, tools[i])
             info == [key |-> name, connection_id |-> conn.key, real_name |-> tools[i]]
         IN AddTools([all_tools |-> Append(acc.all_tools, [name |-> name]),
                      tool_map |-> DictSet(acc.tool_map, name, info)],
                     conn, tools, i + 1)

\* Mutant: the catalog is built from the connection registered first only.
AddFirstConnection(acc, conns, i) ==
    IF conns = <<>> THEN acc ELSE AddTools(acc, conns[1], conns[1].tools, 1)

RECURSIVE AddConnections(_, _, _)
AddConnections(acc, conns, i) ==
    IF i > Len(conns)
    THEN acc
    ELSE AddConnections(AddTools(acc, conns[i], conns[i].tools, 1), conns, i + 1)

\* get_all_tools: (all_tools, tool_map) over the connections, in dict order.
get_all_tools(conns) ==
    AddConnections([all_tools |-> <<>>, tool_map |-> <<>>], conns, 1)

\* ------------------------------------------------------------- execute_tool
\* A name no catalog holds (it has no "__").
UnknownName == << "n", "o" >>

\* Lengths of the text a tool may return.
OutputLengths == {0, MAX_TOOL_RESULT_LENGTH, MAX_TOOL_RESULT_LENGTH + 1}

\* Mutant: an output of exactly MAX_TOOL_RESULT_LENGTH characters is cut too.
shape_output_inclusive(len) ==
    IF len >= MAX_TOOL_RESULT_LENGTH
    THEN [kind |-> "truncated", shown |-> MAX_TOOL_RESULT_LENGTH,
          banner |-> [original |-> len, displayed |-> MAX_TOOL_RESULT_LENGTH]]
    ELSE IF len = 0
    THEN [kind |-> "success_marker"]
    ELSE [kind |-> "output", len |-> len]

\* Mutant: an empty output is returned as it is.
shape_output_no_marker(len) ==
    IF len > MAX_TOOL_RESULT_LENGTH
    THEN [kind |-> "truncated", shown |-> MAX_TOOL_RESULT_LENGTH,
          banner |-> [original |-> len, displayed |-> MAX_TOOL_RESULT_LENGTH]]
    ELSE [kind |-> "output", len |-> len]

\* final_out cut to its first MAX_TOOL_RESULT_LENGTH characters and followed
\* by the banner (which states the original and the displayed length), or as
\* it is, or the success marker when it is empty.  Texts are kept by their
\* length.
shape_output(len) ==
    IF len > MAX_TOOL_RESULT_LENGTH
    THEN [kind |-> "truncated", shown |-> MAX_TOOL_RESULT_LENGTH,
          banner |-> [original |-> len, displayed |-> MAX_TOOL_RESULT_LENGTH]]
    ELSE IF len = 0
    THEN [kind |-> "success_marker"]
    ELSE [kind |-> "output", len |-> len]

\* A text execute_tool returns is the empty string.
IsEmptyText(text) == text.kind = "output" /\ text.len = 0

\* Mutant: a name that is not in the map is sent to the first connection.
ExecuteStartFallback(p, unique_name) ==
    /\ p \in slots
    /\ pc[p] = "idle"
    /\ nOps < MaxOps
    /\ nOps' = nOps + 1
    /\ connections # <<>>
    /\ loc' = [loc EXCEPT ![p] =
             [op |-> "execute", name |-> unique_name,
              known |-> HasKey(get_all_tools(connections).tool_map, unique_name),
              sid |-> connections[1].sid]]
    /\ pc' = [pc EXCEPT ![p] = "e_call"]
    /\ last' = NoResult
    /\ UNCHANGED << connections, exit_stack, nextSid, nFetchFailures, slots, aside >>

\* POST /api/tools/execute up to its first await: the tool map is rebuilt,
\* the name is looked up, and either an error text is returned or
\* session.call_tool is sent (the request is then suspended at "e_call").
ExecuteStart(p, unique_name) ==
    /\ p \in slots
    /\ pc[p] = "idle"
    /\ nOps < MaxOps
    /\ nOps' = nOps + 1
    /\ LET tool_map == get_all_tools(connections).tool_map IN
       IF ~HasKey(tool_map, unique_name)
       THEN /\ last' = [op |-> "execute", name |-> unique_name, known |-> FALSE, sid |-> 0,
                        raised |-> None, text |-> [kind |-> "tool_not_found"]]
            /\ UNCHANGED << pc, loc >>
       ELSE LET info == Get(tool_map, unique_name) IN
            IF ~HasKey(connections, info.connection_id)
            THEN /\ last' = [op |-> "execute", name |-> unique_name, known |-> TRUE,
                             sid |-> 0, raised |-> None,
                             text |-> [kind |-> "connection_lost"]]
                 /\ UNCHANGED << pc, loc >>
            ELSE /\ loc' = [loc EXCEPT ![p] =
                          [op |-> "execute", name |-> unique_name, known |-> TRUE,
                           sid |-> Get(connections, info.connection_id).sid]]
                 /\ pc' = [pc EXCEPT ![p] = "e_call"]
                 /\ last' = NoResult
    /\ UNCHANGED << connections, exit_stack, nextSid, nFetchFailures, slots, aside >>

\* The ClientSession of attempt sid is still entered on its exit stack.
SessionOpen(sid) == \E i \in 1..Len(exit_stack[sid]) : exit_stack[sid][i].kind = "session"

\* What `await conn.session.call_tool(...)` can do: return a result that
\* reports an error, return a result whose parts add up to a text of some
\* length, or throw.  On a session that has been closed it can only throw.
call_tool(sid) ==
    IF SessionOpen(sid)
    THEN {[threw |-> TRUE], [threw |-> FALSE, isError |-> TRUE]}
         \cup { [threw |-> FALSE, isError |-> FALSE, len |-> n] : n \in OutputLengths }
    ELSE {[threw |-> TRUE]}

\* The text execute_tool returns for an outcome of call_tool: the except
\* clause's text, the isError text, or the shaped output.
execute_text(result) ==
    IF result.threw
    THEN [kind |-> "tool_exception"]
    ELSE IF result.isError
    THEN [kind |-> "tool_execution_error"]
    ELSE shape_output(result.len)

\* Mutant: an exception thrown by call_tool is not caught.
ExecuteReturnRaises(p) ==
    /\ pc[p] = "e_call"
    /\ \E result \in call_tool(loc[p].sid) :
         last' = [op |-> "execute", name |-> loc[p].name, known |-> loc[p].known,
                  sid |-> loc[p].sid, result |-> result,
                  closed |-> ~SessionOpen(loc[p].sid),
                  raised |-> IF result.threw THEN OtherError("call_failed") ELSE None,
                  text |-> IF result.threw THEN None ELSE execute_text(result)]
    /\ loc' = [loc EXCEPT ![p] = NoLoc]
    /\ pc' = [pc EXCEPT ![p] = "idle"]
    /\ UNCHANGED << connections, exit_stack, nextSid, nOps, nFetchFailures, slots, aside >>

\* session.call_tool returns or throws; every outcome becomes a text.
\* result: what call_tool did; closed: the session had been closed by then.
ExecuteReturn(p) ==
    /\ pc[p] = "e_call"
    /\ \E result \in call_tool(loc[p].sid) :
         last' = [op |-> "execute", name |-> loc[p].name, known |-> loc[p].known,
                  sid |-> loc[p].sid, result |-> result,
                  closed |-> ~SessionOpen(loc[p].sid),
                  raised |-> None, text |-> execute_text(result)]
    /\ loc' = [loc EXCEPT ![p] = NoLoc]
    /\ pc' = [pc EXCEPT ![p] = "idle"]
    /\ UNCHANGED << connections, exit_stack, nextSid, nOps, nFetchFailures, slots, aside >>

\* ------------------------------------------------------------ list_all_tools
\* n times the character c.
Rep(c, n) == [i \in 1..n |-> c]

\* Connection ids and tool names of every shape the sanitizer distinguishes:
\* empty, starting with a letter, a digit, an underscore, another ASCII
\* character or a non-ASCII letter, and of lengths around the cut.
ProbeIds ==
    { <<>>, <<"a">>, <<"1">>, <<"_">>, <<"-">>, <<"é">>, Rep("a", 30),
      <<"9">> \o Rep("b", 50), <<"a", " ", "b">> }
ProbeToolNames ==
    { <<>>, <<"r">>, <<"x", "-", "y">>, <<"x", ".", "7">>, Rep("t", 10),
      Rep("t", 30), Rep("t", 31), Rep("t", 32), Rep("t", 54),
      Rep("t", 60), Rep("t", 61), Rep("t", 100) }

\* A registry holding one session that offers one tool.
ProbeRegistry(conn_id, tool_name) ==
    << MCPConnection(conn_id, 1, << tool_name >>, <<>>, <<>>) >>

\* GET /api/mcp/tools/list on a given registry: the catalog get_all_tools
\* builds from it.
list_all_tools ==
    /\ probe # None
    /\ ~probe.answered
    /\ probe' = [probe EXCEPT !.answered = TRUE,
                              !.tools = get_all_tools(probe.connections).all_tools]
    /\ UNCHANGED << connections, exit_stack, nextSid, pc, loc, last, nOps,
                    nFetchFailures, slots, messages, events, turn, llm, title >>

\* The catalog is asked for on registries of one session with one tool.
InitCatalog ==
    /\ InitManager
    /\ slots = {}
    /\ NoChat
    /\ \E c \in ProbeIds, t \in ProbeToolNames :
         probe = [connections |-> ProbeRegistry(c, t), answered |-> FALSE,
                  tools |-> <<>>]

\* ------------------------------------------------------------- chat turns
\* Requests of one chat session (the two endpoints that stream a turn).
MaxTurns == 1
\* Chunks a provider's stream delivers before it ends.
MaxChunks == 2

\* The content column of a row: NULL, a text, or what execute_tool_endpoint
\* stores, f"Tool '{tool_name}' Output:\n{result_text}".
NullContent == [kind |-> "null"]
Text(t) == [kind |-> "text", text |-> t]
ToolOutput(tool_name, result_text) ==
    [kind |-> "tool_output", tool |-> tool_name, result |-> result_text]

\* A text a client stores, kept by its length.
Chars(n) == [kind |-> "chars", len |-> n]

\* len("Tool '' Output:\n"), the fixed part of what execute_tool_endpoint
\* stores around the tool's name and its result text.
ToolOutputPrefixLen == 16

\* The length of what execute_tool appends to a truncated output (the
\* original length has four digits), and of its success marker.
BannerLen == 340
SuccessMarkerLen == 21

\* len() of a text execute_tool returns.  The texts of the error returns
\* are counted without the detail they quote.
text_len(result_text) ==
    CASE result_text.kind = "output" -> result_text.len
      [] result_text.kind = "truncated" -> result_text.shown + BannerLen
      [] result_text.kind = "success_marker" -> SuccessMarkerLen
      [] result_text.kind = "tool_not_found" -> 23
      [] result_text.kind = "connection_lost" -> 23
      [] result_text.kind = "tool_execution_error" -> 22
      [] result_text.kind = "tool_exception" -> 18

\* len(content) of a content that is not None.
content_len(content) ==
    CASE content.kind = "text" -> Len(content.text)
      [] content.kind = "chars" -> content.len
      [] content.kind = "tool_output" ->
            ToolOutputPrefixLen + Len(content.tool) + text_len(content.result)

\* Python's truth value of a content: None and "" are false.
Truthy(content) ==
    \/ content.kind = "tool_output"
    \/ content.kind = "text" /\ content.text # <<>>
    \/ content.kind = "chars" /\ content.len > 0

\* A row of the messages table as get_messages returns it (toolCalls is
\* the empty list when the tool_calls column is NULL).  The id "uuid"
\* stands for a fresh str(uuid.uuid4()), the tool_call_id "none" for NULL.
Row(role, content, toolCalls, is_tool_result) ==
    [id |-> "uuid", role |-> role, content |-> content, toolCalls |-> toolCalls,
     is_tool_result |-> is_tool_result, tool_call_id |-> "none"]

\* The row execute_tool_endpoint stores.
ToolResultRow(content, tool_call_id) ==
    [Row("user", content, <<>>, TRUE) EXCEPT !.tool_call_id = tool_call_id]

\* A message as a client sends it, with the id it chose.
ClientMessage(id, content, is_tool_result) ==
    [Row("user", content, <<>>, is_tool_result) EXCEPT !.id = id]

\* The rows without those of an id.
WithoutId(rows, id) == SelectSeq(rows, LAMBDA row : row.id # id)

\* db.add_message followed by get_messages: INSERT OR REPLACE removes the
\* row that has the message's id and inserts the message with a new
\* created_at, and the rows come back ordered by created_at.  A fresh id
\* replaces nothing.
add_message(rows, msg_data) ==
    IF msg_data.id = "uuid"
    THEN Append(rows, msg_data)
    ELSE Append(WithoutId(rows, msg_data.id), msg_data)

\* ChatRequest.new_message is any dict the client sends: a question, an
\* empty text, and a tool-result turn without id whose content is null.
NewMessages ==
    { ClientMessage("m1", Text(<< "q" >>), FALSE),
      ClientMessage("m1", Text(<<>>), FALSE),
      ClientMessage("uuid", NullContent, TRUE) }

\* ExecuteToolRequest.tool_call_id: the id of a call Groq made, or the id
\* stream_gemini_response gave to a call.
ToolCallIds == {"c0", "uuid"}

\* The id a client answers with when the session has no earlier turns, and
\* the ids that name the call of an earlier turn as well.
ChatCallIds == {"c0"}

\* request.config.get("provider"): absent, one of the two, or anything else.
RequestedProviders == {"default", GROQ, GEMINI, "other"}

\* Exceptions of the translation and of the provider's API.
ApiError == [exc |-> "APIError", cause |-> "api"]

\* The two adapters' own limits, and the texts of their markers.
max_tool_result_length == 8000
max_length == 8000
GroqMarker == "Output truncated. Total length: {} characters"
GeminiMarker == "Output truncated. Total: {} chars"

\* Mutant: a content of exactly the limit is cut too.
capped_inclusive(content, limit, marker) ==
    IF content_len(content) >= limit
    THEN [kind |-> "cut", of |-> content, shown |-> limit,
          marker |-> [text |-> marker, total |-> content_len(content)]]
    ELSE content

\* content[:limit] followed by the marker, which states len(content), when
\* the content is longer than the limit; else the content.
capped(content, limit, marker) ==
    IF content_len(content) > limit
    THEN [kind |-> "cut", of |-> content, shown |-> limit,
          marker |-> [text |-> marker, total |-> content_len(content)]]
    ELSE content

\* stream_groq_response's translation of the history, from row i on:
\* len(content) of a tool-result row raises TypeError when content is None;
\* rows of other roles than user, model and assistant are skipped.
RECURSIVE groq_history(_, _)
groq_history(raw_history, i) ==
    IF i > Len(raw_history)
    THEN [raised |-> FALSE, messages |-> <<>>]
    ELSE LET msg == raw_history[i]
             rest == groq_history(raw_history, i + 1)
         IN IF msg.is_tool_result
            THEN IF msg.content.kind = "null"
                 THEN [raised |-> TRUE, messages |-> <<>>]
                 ELSE [rest EXCEPT !.messages =
                         << [role |-> "tool", row |-> i,
                             tool_call_id |-> msg.tool_call_id,
                             content |-> capped(msg.content, max_tool_result_length,
                                                GroqMarker)] >> \o @]
            ELSE IF msg.role \in {"model", "assistant"}
            THEN [rest EXCEPT !.messages = << [role |-> "assistant", row |-> i] >> \o @]
            ELSE IF msg.role = "user"
            THEN [rest EXCEPT !.messages = << [role |-> "user", row |-> i] >> \o @]
            ELSE rest

\* The name of Gemini's function response: the one the content of the row
\* names ("Tool '<name>' Output:"), else "unknown_tool".  The part carries
\* no call id.
function_response_name(content) ==
    IF content.kind = "tool_output" THEN content.tool ELSE << "unknown_tool" >>

\* stream_gemini_response's translation: a row becomes a Content if it has
\* parts; re.search on the content of a tool-result row raises TypeError
\* when the content is None.
RECURSIVE gemini_history(_, _)
gemini_history(raw_history, i) ==
    IF i > Len(raw_history)
    THEN [raised |-> FALSE, messages |-> <<>>]
    ELSE LET msg == raw_history[i]
             rest == gemini_history(raw_history, i + 1)
             role == IF msg.role = "model" THEN "model" ELSE "user"
         IN IF msg.toolCalls # <<>>
            THEN [rest EXCEPT !.messages = << [role |-> role, row |-> i] >> \o @]
            ELSE IF msg.is_tool_result
            THEN IF msg.content.kind = "null"
                 THEN [raised |-> TRUE, messages |-> <<>>]
                 ELSE [rest EXCEPT !.messages =
                         << [role |-> role, row |-> i,
                             name |-> function_response_name(msg.content),
                             tool_call_id |-> "none",
                             response |-> capped(msg.content, max_length,
                                                 GeminiMarker)] >> \o @]
            ELSE IF Truthy(msg.content)
            THEN [rest EXCEPT !.messages = << [role |-> role, row |-> i] >> \o @]
            ELSE rest

\* What an adapter does between its client test and its try block: it
\* converts the catalog and translates the history.  Groq puts a system
\* message first when there are tools.
build_request(provider, raw_history, tools) ==
    IF provider = GROQ
    THEN LET h == groq_history(raw_history, 1)
         IN IF h.raised \/ tools = <<>>
            THEN h
            ELSE [h EXCEPT !.messages = << [role |-> "system", row |-> 0] >> \o @]
    ELSE gemini_history(raw_history, 1)

\* The generator as StreamingResponse starts it.
Started(provider, n) ==
    [at |-> "start", n |-> n, provider |-> provider, raw_history |-> messages',
     base |-> messages']

\* The generator suspended in its try block, with the request it built.
Streaming(provider, request) ==
    [at |-> "create", n |-> turn.n, provider |-> provider, base |-> turn.base,
     request |-> request,
     final_text |-> <<>>, tool_calls_buffer |-> <<>>, parts |-> <<>>,
     calls |-> <<>>, requested |-> 0, nChunks |-> 0]

\* The generator has ended before its try block: it returned or an
\* exception left it.
Closed(outcome) == [at |-> "closed", n |-> turn.n, base |-> turn.base, outcome |-> outcome]

\* The generator has ended in its try block; what it had accumulated.
Ended(outcome) ==
    [at |-> "closed", n |-> turn.n, base |-> turn.base, outcome |-> outcome,
     provider |-> turn.provider, final_text |-> turn.final_text,
     calls |-> turn.calls, requested |-> turn.requested]

\* ------------------------------------------------------------- title task
\* gen_title calls the provider from a coroutine of the event loop: Groq's
\* client is the synchronous one, so the loop serves nothing else until the
\* call is over; Gemini's call is awaited.
Blocked == \E i \in 1..Len(title.tasks) : title.tasks[i].at = "calling" /\ title.tasks[i].blocking

\* bg_tasks.add_task(gen_title) by request n: the task is attached to the
\* response and waits for the body to be sent.
QueueTitle(tasks, n) == Append(tasks, [n |-> n, at |-> "queued", blocking |-> FALSE])

\* Starlette awaits a response's background tasks after its body: a task
\* is ready once the generator has ended, and is dropped if an exception
\* left the generator.
AfterBody(task) ==
    IF task.at # "queued" THEN task
    ELSE [task EXCEPT !.at = IF turn.outcome = "build_raised" THEN "dropped" ELSE "ready"]

\* The tasks as the next request finds them: its predecessor's response is
\* over.
Handover == [i \in 1..Len(title.tasks) |-> AfterBody(title.tasks[i])]

\* A request can be served: the session's previous response has ended and
\* the event loop is free.
CanRequest == turn.at \in {"idle", "closed"} /\ turn.n < MaxTurns /\ ~Blocked

ManagerVars == << connections, exit_stack, nextSid, pc, loc, last, nOps,
                  nFetchFailures, slots, probe >>

\* POST /api/chat: 500 without an active provider; else the message is
\* stored, the history is read, a title task is added to the response if
\* the history has at most one row, and the response is the turn's stream.
chat_endpoint(new_message, provider) ==
    /\ CanRequest
    /\ IF llm.active = "none"
       THEN /\ turn' = [at |-> "closed", n |-> turn.n + 1, base |-> messages,
                        outcome |-> "http_500"]
            /\ events' = <<>>
            /\ title' = [title EXCEPT !.tasks = Handover]
            /\ UNCHANGED messages
       ELSE /\ messages' = add_message(messages, new_message)
            /\ turn' = Started(provider, turn.n + 1)
            /\ events' = <<>>
            /\ title' = [title EXCEPT !.tasks =
                            IF Len(messages') <= 1 THEN QueueTitle(Handover, turn.n + 1)
                            ELSE Handover]
    /\ UNCHANGED << ManagerVars, llm >>

\* What `await manager.execute_tool(name, args, tool_map)` can return with
\* the registry as it is.
execute_tool(unique_name) ==
    LET tool_map == get_all_tools(connections).tool_map IN
    IF ~HasKey(tool_map, unique_name)
    THEN {[kind |-> "tool_not_found"]}
    ELSE LET info == Get(tool_map, unique_name) IN
         IF ~HasKey(connections, info.connection_id)
         THEN {[kind |-> "connection_lost"]}
         ELSE { execute_text(result) :
                  result \in call_tool(Get(connections, info.connection_id).sid) }

\* POST /api/tools/execute: the tool is executed, its result text is stored
\* as a tool-result row, and the response yields the result and then
\* streams the next turn with the active provider.
execute_tool_endpoint(unique_name, tool_call_id) ==
    /\ CanRequest
    /\ \E result_text \in execute_tool(unique_name) :
         /\ messages' = add_message(messages,
                           ToolResultRow(ToolOutput(unique_name, result_text),
                                         tool_call_id))
         /\ events' = << [type |-> "tool_result", tool |-> unique_name,
                          result |-> result_text] >>
    /\ turn' = Started("default", turn.n + 1)
    /\ title' = [title EXCEPT !.tasks = Handover]
    /\ UNCHANGED << ManagerVars, llm >>

\* The answers of POST /api/llm/switch.
Switched(provider) == [status |-> 200, provider |-> provider]
NotAvailable(provider) == [status |-> 400, provider |-> provider]

\* Mutant: the provider is made active without asking whether its client
\* exists.
switch_unchecked(state, provider) ==
    IF provider \in {GROQ, GEMINI}
    THEN [llm |-> [state EXCEPT !.active = provider], answer |-> Switched(provider)]
    ELSE [llm |-> state, answer |-> NotAvailable(provider)]

\* switch_provider's body: Groq or Gemini becomes the active provider if it
\* is the one asked for and its client exists; anything else raises
\* HTTPException(400) and assigns nothing.
switch(state, provider) ==
    IF provider = GROQ /\ GROQ \in state.clients
    THEN [llm |-> [state EXCEPT !.active = GROQ], answer |-> Switched(GROQ)]
    ELSE IF provider = GEMINI /\ GEMINI \in state.clients
    THEN [llm |-> [state EXCEPT !.active = GEMINI], answer |-> Switched(GEMINI)]
    ELSE [llm |-> state, answer |-> NotAvailable(provider)]

\* POST /api/llm/switch: the active provider changes if the requested
\* provider's client exists (else the answer is 400).
switch_provider(provider) ==
    /\ llm' = switch(llm, provider).llm
    /\ ~Blocked
    /\ UNCHANGED << ManagerVars, messages, events, turn, title >>

\* ---------------------------------------------------------- stream adapters
\* The server-sent events of a response.
TextEvent(content) == [type |-> "text", content |-> content]
ApprovalEvent(tool) == [type |-> "tool_approval_request", tool |-> tool]
DoneEvent == [type |-> "done"]
ErrorEvent(message) == [type |-> "error", error |-> message]

\* json.loads of an argument string, written with the characters "{", "k"
\* and "}": "{k}" stands for an object with one key, "{}" for the empty
\* object, and nothing else parses.  An object is the set of its keys.
json_loads(arguments) ==
    IF arguments = << "{", "k", "}" >> THEN [ok |-> TRUE, value |-> {"k"}]
    ELSE IF arguments = << "{", "}" >> THEN [ok |-> TRUE, value |-> {}]
    ELSE [ok |-> FALSE, value |-> {}]

\* try: args = json.loads(...) except: args = {}
parse_args(arguments) ==
    IF json_loads(arguments).ok THEN json_loads(arguments).value ELSE {}

\* A tool-call fragment of a Groq delta; "" stands for an absent id or name.
Fragment(index, id, name, arguments) ==
    [index |-> index, id |-> id, name |-> name, arguments |-> arguments]

\* The deltas Groq's stream can deliver: text, nothing (no choices, or an
\* empty content), and fragments of the calls 0 and 1.
GroqChunks ==
    { [content |-> << "h" >>, tool_calls |-> <<>>],
      [content |-> <<>>, tool_calls |-> <<>>],
      [content |-> <<>>, tool_calls |-> << Fragment(0, "c0", "f", << "{", "k" >>) >>],
      [content |-> <<>>, tool_calls |-> << Fragment(0, "", "", << "}" >>) >>],
      [content |-> <<>>, tool_calls |-> << Fragment(1, "c1", "g", << "{", "}" >>) >>] }

\* The chunks Gemini's stream can deliver, each the parts of its first
\* candidate: none, a text, one function call, two function calls.
TextPart(text) == [function_call |-> FALSE, text |-> text]
CallPart(name, args) == [function_call |-> TRUE, name |-> name, args |-> args]
GeminiChunks ==
    { <<>>,
      << TextPart(<< "h" >>) >>,
      << TextPart(<<>>) >>,
      << CallPart("f", {"k"}) >>,
      << CallPart("f", {"k"}), CallPart("g", {}) >> }

\* Mutant: a fragment's argument string replaces the one accumulated.
RECURSIVE accumulate_last(_, _, _)
accumulate_last(buffer, tool_calls, i) ==
    IF i > Len(tool_calls)
    THEN buffer
    ELSE LET tool_call == tool_calls[i]
             old == IF HasKey(buffer, tool_call.index)
                    THEN Get(buffer, tool_call.index)
                    ELSE [key |-> tool_call.index, id |-> "", name |-> "",
                          arguments |-> <<>>]
             new == [key |-> tool_call.index,
                     id |-> IF tool_call.id # "" THEN tool_call.id ELSE old.id,
                     name |-> IF tool_call.name # "" THEN tool_call.name ELSE old.name,
                     arguments |-> IF tool_call.arguments # <<>> THEN tool_call.arguments
                                   ELSE old.arguments]
         IN accumulate_last(DictSet(buffer, tool_call.index, new), tool_calls, i + 1)

\* tool_calls_buffer after the fragments of one delta, from fragment i on:
\* a new index gets an entry; id and name are replaced when present and the
\* argument string grows.
RECURSIVE accumulate(_, _, _)
accumulate(buffer, tool_calls, i) ==
    IF i > Len(tool_calls)
    THEN buffer
    ELSE LET tool_call == tool_calls[i]
             old == IF HasKey(buffer, tool_call.index)
                    THEN Get(buffer, tool_call.index)
                    ELSE [key |-> tool_call.index, id |-> "", name |-> "",
                          arguments |-> <<>>]
             new == [key |-> tool_call.index,
                     id |-> IF tool_call.id # "" THEN tool_call.id ELSE old.id,
                     name |-> IF tool_call.name # "" THEN tool_call.name ELSE old.name,
                     arguments |-> old.arguments \o tool_call.arguments]
         IN accumulate(DictSet(buffer, tool_call.index, new), tool_calls, i + 1)

\* tool_calls_list: the buffer's values in the order of their first
\* fragment, each with its arguments parsed.
tool_calls_list(buffer) ==
    [i \in 1..Len(buffer) |->
        [id |-> buffer[i].id, name |-> buffer[i].name,
         args |-> parse_args(buffer[i].arguments)]]

\* Mutant: an approval is requested for every accumulated call.
approval_requests_all(calls) == [i \in 1..Len(calls) |-> ApprovalEvent(calls[i])]

\* "Send tool approval request for first tool".
approval_requests(calls) ==
    IF calls # <<>> THEN << ApprovalEvent(calls[1]) >> ELSE <<>>

\* Mutant: the final text is stored even when it is empty.
final_rows_always(role, final_text) == << Row(role, Text(final_text), <<>>, FALSE) >>

\* "if final_text: db.add_message(...)": the rows a turn without tool call
\* adds.
final_rows(role, final_text) ==
    IF final_text # <<>> THEN << Row(role, Text(final_text), <<>>, FALSE) >> ELSE <<>>

\* stream_llm_response up to the adapter's try block: the provider is
\* resolved; an unknown provider or a missing client yields one error; the
\* adapter then builds its request outside of any try, so an exception of
\* the translation leaves the generator; an empty request ends the response.
stream_llm_response ==
    /\ turn.at = "start"
    /\ ~Blocked
    /\ LET provider == IF turn.provider = "default" THEN llm.active ELSE turn.provider
       IN IF provider \notin {GROQ, GEMINI}
          THEN /\ events' = Append(events, ErrorEvent("No LLM provider available"))
               /\ turn' = Closed("no_provider")
          ELSE IF provider \notin llm.clients
          THEN /\ events' = Append(events, ErrorEvent("client not initialized"))
               /\ turn' = Closed("no_client")
          ELSE LET request == build_request(provider, turn.raw_history,
                                            get_all_tools(connections).all_tools)
               IN IF request.raised
                  THEN /\ turn' = Closed("build_raised")
                       /\ UNCHANGED events
                  ELSE IF request.messages = <<>>
                  THEN /\ turn' = Closed("empty_request")
                       /\ UNCHANGED events
                  ELSE /\ turn' = Streaming(provider, request.messages)
                       /\ UNCHANGED events
    /\ UNCHANGED << ManagerVars, messages, llm, title >>

\* The awaited create / generate_content_stream returns the stream.
StreamCreate ==
    /\ turn.at = "create"
    /\ ~Blocked
    /\ turn' = [turn EXCEPT !.at = "stream"]
    /\ UNCHANGED << ManagerVars, messages, events, llm, title >>

\* The request or the iteration of the stream raises: `except Exception`
\* yields one error event and the generator ends.
StreamFails ==
    /\ turn.at \in {"create", "stream"}
    /\ ~Blocked
    /\ events' = Append(events, ErrorEvent(ApiError.cause))
    /\ turn' = Ended("stream_raised")
    /\ UNCHANGED << ManagerVars, messages, llm, title >>

\* Groq: the next delta.  A non-empty content is added to final_text and
\* relayed; tool-call fragments go to the buffer.
GroqChunk ==
    /\ turn.at = "stream" /\ turn.provider = GROQ
    /\ ~Blocked
    /\ turn.nChunks < MaxChunks
    /\ \E chunk \in GroqChunks :
         /\ events' = IF chunk.content # <<>>
                      THEN Append(events, TextEvent(chunk.content))
                      ELSE events
         /\ turn' = [turn EXCEPT
                       !.nChunks = @ + 1,
                       !.final_text = @ \o chunk.content,
                       !.tool_calls_buffer = accumulate(@, chunk.tool_calls, 1),
                       !.requested = Len(accumulate(turn.tool_calls_buffer,
                                                    chunk.tool_calls, 1))]
    /\ UNCHANGED << ManagerVars, messages, llm, title >>

\* Mutant: the approval is requested but the assistant turn is not stored.
GroqStreamEndForgets ==
    /\ turn.at = "stream" /\ turn.provider = GROQ
    /\ ~Blocked
    /\ IF turn.tool_calls_buffer # <<>>
       THEN LET calls == tool_calls_list(turn.tool_calls_buffer) IN
            /\ UNCHANGED messages
            /\ events' = events \o approval_requests(calls)
            /\ turn' = [turn EXCEPT !.at = "approval_sent", !.calls = calls]
       ELSE /\ messages' = messages \o final_rows("assistant", turn.final_text)
            /\ events' = Append(events, DoneEvent)
            /\ turn' = Ended("done")
    /\ UNCHANGED << ManagerVars, llm, title >>

\* Groq: the stream has ended.  With calls in the buffer the assistant turn
\* is stored with all of them and the approval of the first is yielded;
\* without, the final text is stored if there is one and [DONE] is yielded.
GroqStreamEnd ==
    /\ turn.at = "stream" /\ turn.provider = GROQ
    /\ ~Blocked
    /\ IF turn.tool_calls_buffer # <<>>
       THEN LET calls == tool_calls_list(turn.tool_calls_buffer) IN
            /\ messages' = add_message(messages,
                              Row("assistant", Text(turn.final_text), calls, FALSE))
            /\ events' = events \o approval_requests(calls)
            /\ turn' = [turn EXCEPT !.at = "approval_sent", !.calls = calls]
       ELSE /\ messages' = messages \o final_rows("assistant", turn.final_text)
            /\ events' = Append(events, DoneEvent)
            /\ turn' = Ended("done")
    /\ UNCHANGED << ManagerVars, llm, title >>

\* Groq: [DONE] after the approval request, and the generator returns.
GroqDone ==
    /\ turn.at = "approval_sent"
    /\ ~Blocked
    /\ events' = Append(events, DoneEvent)
    /\ turn' = Ended("approval")
    /\ UNCHANGED << ManagerVars, messages, llm, title >>

\* Gemini: the next chunk; its parts are handled one by one.
GeminiChunk ==
    /\ turn.at = "stream" /\ turn.provider = GEMINI
    /\ ~Blocked
    /\ turn.parts = <<>>
    /\ turn.nChunks < MaxChunks
    /\ \E chunk \in GeminiChunks :
         turn' = [turn EXCEPT !.nChunks = @ + 1, !.parts = chunk]
    /\ UNCHANGED << ManagerVars, messages, events, llm, title >>

\* The function calls among parts.
CallsIn(parts) == Len(SelectSeq(parts, LAMBDA part : part.function_call))

\* Gemini: the next part of the chunk.  A function call is given an id and
\* its approval is yielded at once; a non-empty text is added to final_text
\* and relayed.
GeminiPart ==
    /\ turn.at = "stream" /\ turn.provider = GEMINI
    /\ ~Blocked
    /\ turn.parts # <<>>
    /\ LET part == Head(turn.parts) IN
       IF part.function_call
       THEN LET tool_data == [id |-> "uuid", name |-> part.name, args |-> part.args] IN
            /\ events' = Append(events, ApprovalEvent(tool_data))
            /\ turn' = [turn EXCEPT !.at = "approval_first", !.calls = << tool_data >>,
                                    !.requested = CallsIn(turn.parts)]
       ELSE /\ events' = IF part.text # <<>>
                         THEN Append(events, TextEvent(part.text))
                         ELSE events
            /\ turn' = [turn EXCEPT !.final_text = @ \o part.text, !.parts = Tail(@)]
    /\ UNCHANGED << ManagerVars, messages, llm, title >>

\* Gemini: after the approval request the model turn is stored with the one
\* call, [DONE] is yielded and the generator returns.
GeminiPersist ==
    /\ turn.at = "approval_first"
    /\ ~Blocked
    /\ messages' = add_message(messages,
                      Row("model", Text(turn.final_text), turn.calls, FALSE))
    /\ events' = Append(events, DoneEvent)
    /\ turn' = Ended("approval")
    /\ UNCHANGED << ManagerVars, llm, title >>

\* Gemini: the stream has ended without a function call.
GeminiStreamEnd ==
    /\ turn.at = "stream" /\ turn.provider = GEMINI
    /\ ~Blocked
    /\ turn.parts = <<>>
    /\ messages' = messages \o final_rows("model", turn.final_text)
    /\ events' = Append(events, DoneEvent)
    /\ turn' = Ended("done")
    /\ UNCHANGED << ManagerVars, llm, title >>

\* What the provider's title call can do: answer with a text, answer with
\* an empty text, or throw.
TitleAnswers == {"text", "empty", "raised"}

\* The response's body has been sent and Starlette awaits gen_title, which
\* runs to its provider call: Groq's if Groq is active, else Gemini's if
\* Gemini is active, else it returns.  After an exception of the generator
\* the task is never awaited.
TitleStart(i) ==
    /\ i \in 1..Len(title.tasks)
    /\ ~Blocked
    /\ \/ title.tasks[i].at = "ready"
       \/ title.tasks[i].at = "queued" /\ turn.at = "closed"
    /\ title' = [title EXCEPT !.tasks[i] =
                    IF AfterBody(@).at = "dropped" THEN AfterBody(@)
                    ELSE IF llm.active = GROQ /\ GROQ \in llm.clients
                    THEN [@ EXCEPT !.at = "calling", !.blocking = TRUE]
                    ELSE IF llm.active = GEMINI /\ GEMINI \in llm.clients
                    THEN [@ EXCEPT !.at = "calling", !.blocking = FALSE]
                    ELSE [@ EXCEPT !.at = "done"]]
    /\ UNCHANGED << ManagerVars, messages, events, turn, llm >>

\* The provider's call is over: a non-empty text becomes the session's
\* title; an exception is caught and logged.
TitleReturn(i) ==
    /\ i \in 1..Len(title.tasks)
    /\ title.tasks[i].at = "calling"
    /\ \E answer \in TitleAnswers :
         title' = [value |-> IF answer = "text" THEN "generated" ELSE title.value,
                   tasks |-> [title.tasks EXCEPT ![i] =
                                [@ EXCEPT !.at = IF answer = "raised" THEN "failed" ELSE "done",
                                          !.blocking = FALSE]]]
    /\ UNCHANGED << ManagerVars, messages, events, turn, llm >>

\* A registry with one session that offers the tool "r".
OneSession ==
    /\ connections = << MCPConnection(<< "a", "-" >>, 1, << << "r" >> >>, <<>>, <<>>) >>
    /\ exit_stack = [s \in Sids |->
                        IF s = 1 THEN Push(Push(<<>>, "stdio_client"), "ClientSession")
                        ELSE <<>>]
    /\ nextSid = 2
    /\ pc = [p \in Procs |-> "idle"]
    /\ loc = [p \in Procs |-> NoLoc]
    /\ last = NoResult
    /\ nOps = 0
    /\ nFetchFailures = 0

\* A chat session is opened on a server that has no MCP session or one,
\* and whose provider clients are any of the two.
InitChat ==
    /\ InitManager \/ OneSession
    /\ slots = {}
    /\ probe = None
    /\ messages = <<>>
    /\ events = <<>>
    /\ turn = NoTurn
    /\ \E clients \in SUBSET {GROQ, GEMINI} : llm = Startup(clients)
    /\ title = NoTitle

\* ------------------------------------------------------- a session's history
\* POST /api/messages: the message is stored as it is.
save_message(message) ==
    /\ CanRequest
    /\ messages' = add_message(messages, message)
    /\ turn' = [turn EXCEPT !.n = @ + 1]
    /\ title' = [title EXCEPT !.tasks = Handover]
    /\ UNCHANGED << ManagerVars, events, llm >>

\* The call of an earlier turn, as Groq and as Gemini stored it.
EarlierCall(id) == [id |-> id, name |-> "f", args |-> {"k"}]

\* Histories earlier turns have left: none; a question whose turn stored
\* nothing; a question and the assistant turn with a call that Groq, or
\* Gemini, stored for it.
EarlierHistories ==
    { <<>>,
      << ClientMessage("m1", Text(<< "q" >>), FALSE) >>,
      << ClientMessage("m1", Text(<< "q" >>), FALSE),
         Row("assistant", Text(<<>>), << EarlierCall("c0") >>, FALSE) >>,
      << ClientMessage("m1", Text(<< "q" >>), FALSE),
         Row("model", Text(<<>>), << EarlierCall("uuid") >>, FALSE) >> }

\* A chat session that may already have turns.
InitSession ==
    /\ InitManager \/ OneSession
    /\ slots = {}
    /\ probe = None
    /\ messages \in EarlierHistories
    /\ events = <<>>
    /\ turn = NoTurn
    /\ \E clients \in SUBSET {GROQ, GEMINI} : llm = Startup(clients)
    /\ title = NoTitle

\* ------------------------------------------------- the two adapters compared
\* What a provider puts out during a turn, whichever provider it is: a text
\* delta, a tool call, a failure of the stream.
ProviderOutputs ==
    { [kind |-> "text", content |-> << "h" >>],
      [kind |-> "call", name |-> "f", args |-> {"k"}],
      [kind |-> "failure"] }

\* The output sequences of up to n outputs.
RECURSIVE OutputSeqs(_)
OutputSeqs(n) ==
    IF n = 0
    THEN { <<>> }
    ELSE OutputSeqs(n - 1)
         \cup { Append(outputs, o) : outputs \in { x \in OutputSeqs(n - 1) : Len(x) = n - 1 },
                                     o \in ProviderOutputs }

\* The argument string Groq sends for an object.
json_dumps(args) == IF args = {"k"} THEN << "{", "k", "}" >> ELSE << "{", "}" >>

\* stream_groq_response reading the outputs from output i on, Groq
\* delivering each call whole under the next index: the events it yields.
RECURSIVE groq_stream(_, _, _, _)
groq_stream(outputs, i, yielded, tool_calls_buffer) ==
    IF i > Len(outputs)
    THEN IF tool_calls_buffer # <<>>
         THEN yielded \o approval_requests(tool_calls_list(tool_calls_buffer))
                      \o << DoneEvent >>
         ELSE Append(yielded, DoneEvent)
    ELSE LET o == outputs[i] IN
         IF o.kind = "failure"
         THEN Append(yielded, ErrorEvent(ApiError.cause))
         ELSE IF o.kind = "text"
         THEN groq_stream(outputs, i + 1, Append(yielded, TextEvent(o.content)),
                          tool_calls_buffer)
         ELSE groq_stream(outputs, i + 1, yielded,
                          accumulate(tool_calls_buffer,
                                     << Fragment(Len(tool_calls_buffer), "c0", o.name,
                                                 json_dumps(o.args)) >>, 1))

\* stream_gemini_response reading the outputs from output i on, each a
\* chunk of one part: the events it yields.
RECURSIVE gemini_stream(_, _, _)
gemini_stream(outputs, i, yielded) ==
    IF i > Len(outputs)
    THEN Append(yielded, DoneEvent)
    ELSE LET o == outputs[i] IN
         IF o.kind = "failure"
         THEN Append(yielded, ErrorEvent(ApiError.cause))
         ELSE IF o.kind = "text"
         THEN gemini_stream(outputs, i + 1, Append(yielded, TextEvent(o.content)))
         ELSE yielded \o << ApprovalEvent([id |-> "uuid", name |-> o.name,
                                           args |-> o.args]), DoneEvent >>

\* The whole response of an adapter whose client exists: nothing is yielded
\* when the request cannot be built or is empty.
adapter_response(provider, raw_history, tools, outputs) ==
    LET request == build_request(provider, raw_history, tools) IN
    IF request.raised
    THEN [raised |-> TRUE, events |-> <<>>]
    ELSE IF request.messages = <<>>
    THEN [raised |-> FALSE, events |-> <<>>]
    ELSE [raised |-> FALSE,
          events |-> IF provider = GROQ
                     THEN groq_stream(outputs, 1, <<>>, <<>>)
                     ELSE gemini_stream(outputs, 1, <<>>)]

\* The response of an adapter that has not run.
NotRun == [ran |-> FALSE, raised |-> FALSE, events |-> <<>>]

\* One history, one catalog and one sequence of provider outputs are given
\* to both adapters.
InitAdapters ==
    /\ InitManager
    /\ slots = {}
    /\ NoChat
    /\ \E new_message \in NewMessages, tools \in {<<>>, << [name |-> << "r" >>] >>},
          outputs \in OutputSeqs(MaxChunks) :
         probe = [raw_history |-> << new_message >>, tools |-> tools,
                  outputs |-> outputs, groq |-> NotRun, gemini |-> NotRun]

\* The turn served by the Groq adapter.
stream_groq_response ==
    /\ ~probe.groq.ran
    /\ LET r == adapter_response(GROQ, probe.raw_history, probe.tools, probe.outputs)
       IN probe' = [probe EXCEPT !.groq = [ran |-> TRUE, raised |-> r.raised,
                                           events |-> r.events]]
    /\ UNCHANGED << connections, exit_stack, nextSid, pc, loc, last, nOps,
                    nFetchFailures, slots, messages, events, turn, llm, title >>

\* The turn served by the Gemini adapter.
stream_gemini_response ==
    /\ ~probe.gemini.ran
    /\ LET r == adapter_response(GEMINI, probe.raw_history, probe.tools, probe.outputs)
       IN probe' = [probe EXCEPT !.gemini = [ran |-> TRUE, raised |-> r.raised,
                                             events |-> r.events]]
    /\ UNCHANGED << connections, exit_stack, nextSid, pc, loc, last, nOps,
                    nFetchFailures, slots, messages, events, turn, llm, title >>

\* ------------------------------------------------- read_resource, get_prompt
\* The two manager methods that address a session by its connection id.
ReadMethods == {"read_resource", "get_prompt"}

\* What a resource's contents or a prompt's messages can hold: an item with
\* a text, a binary item, an item with neither.
ItemKinds == {"text", "blob", "other"}
ReadItems == { <<>>, << "text" >>, << "blob" >>, << "other" >>, << "text", "blob" >> }

\* What `await conn.session.read_resource(uri)` or `await
\* conn.session.get_prompt(name, arguments=args)` can do: return items or
\* throw.  On a session that has been closed it can only throw.
session_read(sid) ==
    IF SessionOpen(sid)
    THEN {[threw |-> TRUE]} \cup { [threw |-> FALSE, items |-> items] : items \in ReadItems }
    ELSE {[threw |-> TRUE]}

\* read_resource's text: the texts, and a placeholder for every blob, joined
\* by a blank line.
read_resource_text(items) ==
    [sep |-> "\n\n",
     parts |-> SelectSeq([i \in 1..Len(items) |->
                             IF items[i] = "blob" THEN "[Binary Blob]" ELSE items[i]],
                         LAMBDA part : part # "other")]

\* get_prompt's text: the texts joined by a newline.
get_prompt_text(items) ==
    [sep |-> "\n", parts |-> SelectSeq(items, LAMBDA item : item = "text")]

\* Mutant: the registry is indexed instead of asked, so an absent id is a
\* KeyError.
ReadStartIndexes(p, method, cid) ==
    /\ p \in slots
    /\ pc[p] = "idle"
    /\ nOps < MaxOps
    /\ nOps' = nOps + 1
    /\ IF ~HasKey(connections, cid)
       THEN /\ last' = [op |-> method, cid |-> cid, found |-> FALSE, sid |-> 0,
                        raised |-> [exc |-> "KeyError", status |-> 0, cause |-> cid],
                        text |-> None]
            /\ UNCHANGED << pc, loc >>
       ELSE /\ loc' = [loc EXCEPT ![p] = [op |-> method, cid |-> cid,
                                           sid |-> Get(connections, cid).sid]]
            /\ pc' = [pc EXCEPT ![p] = "r_call"]
            /\ last' = NoResult
    /\ UNCHANGED << connections, exit_stack, nextSid, nFetchFailures, slots, aside >>

\* read_resource / get_prompt up to the first await: the connection is
\* looked up; if it is absent ValueError("Connection not found") is raised,
\* else the session is asked (the request is then suspended at "r_call").
\* sid: the session that was asked, 0 if none was.
ReadStart(p, method, cid) ==
    /\ p \in slots
    /\ pc[p] = "idle"
    /\ nOps < MaxOps
    /\ nOps' = nOps + 1
    /\ IF ~HasKey(connections, cid)
       THEN /\ last' = [op |-> method, cid |-> cid, found |-> FALSE, sid |-> 0,
                        raised |-> ValueError("Connection not found"), text |-> None]
            /\ UNCHANGED << pc, loc >>
       ELSE /\ loc' = [loc EXCEPT ![p] = [op |-> method, cid |-> cid,
                                           sid |-> Get(connections, cid).sid]]
            /\ pc' = [pc EXCEPT ![p] = "r_call"]
            /\ last' = NoResult
    /\ UNCHANGED << connections, exit_stack, nextSid, nFetchFailures, slots, aside >>

\* The session returns or throws; what it throws leaves the method.
ReadReturn(p) ==
    /\ pc[p] = "r_call"
    /\ \E result \in session_read(loc[p].sid) :
         last' = [op |-> loc[p].op, cid |-> loc[p].cid, found |-> TRUE, sid |-> loc[p].sid,
                  raised |-> IF result.threw THEN OtherError("read_failed") ELSE None,
                  text |-> IF result.threw THEN None
                           ELSE IF loc[p].op = "read_resource"
                           THEN read_resource_text(result.items)
                           ELSE get_prompt_text(result.items)]
    /\ loc' = [loc EXCEPT ![p] = NoLoc]
    /\ pc' = [pc EXCEPT ![p] = "idle"]
    /\ UNCHANGED << connections, exit_stack, nextSid, nOps, nFetchFailures, slots, aside >>

\* Overlapping requests on a registry that is empty or holds one session.
InitRead ==
    /\ InitManager \/ OneSession
    /\ slots = Procs
    /\ probe = None
    /\ NoChat

\* ------------------------------------------------ tool-call fragments
MaxDeltas == 3

\* Deltas of a Groq stream in which the id, the name and the arguments of
\* call 0 arrive in pieces, between a text delta and a call 1.
FragmentDeltas ==
    { [content |-> << "h" >>, tool_calls |-> <<>>],
      [content |-> <<>>, tool_calls |-> << Fragment(0, "c", "f", << "{" >>) >>],
      [content |-> <<>>, tool_calls |-> << Fragment(0, "0", "", << "k" >>) >>],
      [content |-> <<>>, tool_calls |-> << Fragment(0, "", "g", << "}" >>) >>],
      [content |-> <<>>, tool_calls |-> << Fragment(1, "d", "h", << "{", "}" >>) >>] }

\* The sequences of up to n deltas.
RECURSIVE DeltaSeqs(_)
DeltaSeqs(n) ==
    IF n = 0
    THEN { <<>> }
    ELSE DeltaSeqs(n - 1)
         \cup { Append(deltas, d) : deltas \in { x \in DeltaSeqs(n - 1) : Len(x) = n - 1 },
                                    d \in FragmentDeltas }

\* A stream that is about to be read.
InitFragments ==
    /\ InitManager
    /\ slots = {}
    /\ NoChat
    /\ \E deltas \in DeltaSeqs(MaxDeltas) :
         probe = [deltas |-> deltas, read |-> 0, final_text |-> <<>>,
                  tool_calls_buffer |-> <<>>, ended |-> FALSE, tool_calls_list |-> <<>>]

\* One pass of stream_groq_response's `async for chunk in stream`.
groq_delta ==
    /\ probe.read < Len(probe.deltas)
    /\ LET delta == probe.deltas[probe.read + 1] IN
       probe' = [probe EXCEPT !.read = @ + 1,
                              !.final_text = @ \o delta.content,
                              !.tool_calls_buffer = accumulate(@, delta.tool_calls, 1)]
    /\ UNCHANGED << connections, exit_stack, nextSid, pc, loc, last, nOps,
                    nFetchFailures, slots, messages, events, turn, llm, title >>

\* The stream has ended: the completed calls are listed.
groq_completed ==
    /\ probe.read = Len(probe.deltas)
    /\ ~probe.ended
    /\ probe' = [probe EXCEPT !.ended = TRUE,
                              !.tool_calls_list = tool_calls_list(probe.tool_calls_buffer)]
    /\ UNCHANGED << connections, exit_stack, nextSid, pc, loc, last, nOps,
                    nFetchFailures, slots, messages, events, turn, llm, title >>

\* --------------------------------------------------- the messages table
\* (add_message above is this table read back after every insert, with a
\* clock that has advanced between any two inserts.)
MaxAdds == 3

\* Message ids as clients choose them.
StoredIds == {"m1", "m2", "m3"}

\* datetime.now(): the local wall clock.  Since the previous reading it has
\* advanced, or not by as much as its resolution, or it has been set back
\* (a clock correction, the end of daylight saving time).
Readings(clock) == {clock, clock + 1} \cup (IF clock > 1 THEN {clock - 1} ELSE {})

\* INSERT OR REPLACE INTO messages: the row of the same id, if any, is
\* deleted and the new row is inserted last.
insert_or_replace(rows, id, created_at) ==
    Append(SelectSeq(rows, LAMBDA row : row.id # id), [id |-> id, created_at |-> created_at])

\* The sequences that hold each of the rows once.
Orders(rows) ==
    { order \in [1..Len(rows) -> 1..Len(rows)] :
         \A i, j \in 1..Len(rows) : i # j => order[i] # order[j] }

\* SELECT ... ORDER BY created_at ASC: the ids of the rows in an order in
\* which created_at never decreases; SQL leaves the order of rows of equal
\* created_at open.
order_by_created_at(rows) ==
    { [i \in 1..Len(rows) |-> rows[order[i]].id] : order \in
        { o \in Orders(rows) :
            \A i, j \in 1..Len(rows) :
                i < j => rows[o[i]].created_at <= rows[o[j]].created_at } }

\* ChatDatabase.add_message: the row is stamped with the clock's reading.
\* appended: the ids in the order of their latest add_message; adds: the
\* calls so far; strict: the clock has advanced before every insert so far.
db_add_message(id) ==
    /\ probe.adds < MaxAdds
    /\ \E now \in Readings(probe.clock) :
         probe' = [rows |-> insert_or_replace(probe.rows, id, now),
                   appended |-> Append(SelectSeq(probe.appended, LAMBDA x : x # id), id),
                   clock |-> now, adds |-> probe.adds + 1,
                   strict |-> probe.strict /\ now > probe.clock,
                   read |-> FALSE, got |-> <<>>]
    /\ UNCHANGED << connections, exit_stack, nextSid, pc, loc, last, nOps,
                    nFetchFailures, slots, messages, events, turn, llm, title >>

\* ChatDatabase.get_messages.
db_get_messages ==
    /\ ~probe.read
    /\ \E got \in order_by_created_at(probe.rows) :
         probe' = [probe EXCEPT !.read = TRUE, !.got = got]
    /\ UNCHANGED << connections, exit_stack, nextSid, pc, loc, last, nOps,
                    nFetchFailures, slots, messages, events, turn, llm, title >>

\* A session without messages.
InitStore ==
    /\ InitManager
    /\ slots = {}
    /\ NoChat
    /\ probe = [rows |-> <<>>, appended |-> <<>>, clock |-> 1, adds |-> 0, strict |-> TRUE,
                read |-> FALSE, got |-> <<>>]

\* ------------------------------------------------ the history translated
MaxRows == 2

\* Rows a history can hold: a question; tool results a client stored, of a
\* length around the limit; tool results execute_tool_endpoint stored.
HistoryRows ==
    { ClientMessage("m1", Text(<< "q" >>), FALSE) }
    \cup { ToolResultRow(Chars(n), "c0") :
             n \in {0, max_tool_result_length, max_tool_result_length + 1} }
    \cup { ToolResultRow(ToolOutput(<< "r" >>, shape_output(n)), "c0") :
             n \in OutputLengths }

RowSeqs(n) == UNION { [1..k -> HistoryRows] : k \in 1..n }

NotBuilt == [built |-> FALSE, raised |-> FALSE, messages |-> <<>>]

\* One history is given to both translations.
InitTranslate ==
    /\ InitManager
    /\ slots = {}
    /\ NoChat
    /\ \E raw_history \in RowSeqs(MaxRows) :
         probe = [raw_history |-> raw_history, groq_messages |-> NotBuilt,
                  gemini_history |-> NotBuilt]

\* stream_groq_response's loop over raw_history.
build_groq_messages ==
    /\ ~probe.groq_messages.built
    /\ LET h == groq_history(probe.raw_history, 1)
       IN probe' = [probe EXCEPT !.groq_messages =
                       [built |-> TRUE, raised |-> h.raised, messages |-> h.messages]]
    /\ UNCHANGED << connections, exit_stack, nextSid, pc, loc, last, nOps,
                    nFetchFailures, slots, messages, events, turn, llm, title >>

\* stream_gemini_response's loop over raw_history.
build_gemini_history ==
    /\ ~probe.gemini_history.built
    /\ LET h == gemini_history(probe.raw_history, 1)
       IN probe' = [probe EXCEPT !.gemini_history =
                       [built |-> TRUE, raised |-> h.raised, messages |-> h.messages]]
    /\ UNCHANGED << connections, exit_stack, nextSid, pc, loc, last, nOps,
                    nFetchFailures, slots, messages, events, turn, llm, title >>

\* ------------------------------------------------------- provider switches
MaxSwitches == 3

\* The `provider` query parameter: one of the two names or anything else.
SwitchRequests == {GROQ, GEMINI, "other"}

\* POST /api/llm/switch as its client sees it: the request, the answer, and
\* ACTIVE_PROVIDER before and after (probe is the log of these).
post_llm_switch(provider) ==
    /\ Len(probe) < MaxSwitches
    /\ llm' = switch(llm, provider).llm
    /\ probe' = Append(probe, [provider |-> provider,
                               answer |-> switch(llm, provider).answer,
                               before |-> llm.active,
                               after |-> llm'.active])
    /\ UNCHANGED << connections, exit_stack, nextSid, pc, loc, last, nOps,
                    nFetchFailures, slots, messages, events, turn, title >>

\* The server has started with any of the two clients; nobody has asked for
\* a switch yet.
InitSwitch ==
    /\ InitManager
    /\ slots = {}
    /\ probe = <<>>
    /\ messages = <<>>
    /\ events = <<>>
    /\ turn = NoTurn
    /\ title = NoTitle
    /\ \E clients \in SUBSET {GROQ, GEMINI} : llm = Startup(clients)

Next ==
    \/ \E p \in Procs, cid \in ConnIds, target \in Targets, type \in Types :
          ConnectStart(p, cid, target, type)
    \/ \E p \in Procs, cid \in ConnIds, target \in Targets, type \in Types :
          connect_mcp(p, cid, target, type)
    \/ \E p \in Procs : ConnectOpen(p)
    \/ \E p \in Procs : ConnectOpenAgain(p)
    \/ \E p \in Procs : ConnectSession(p)
    \/ \E p \in Procs : ConnectInit(p)
    \/ \E p \in Procs : ConnectTools(p)
    \/ \E p \in Procs : ConnectResources(p)
    \/ \E p \in Procs : ConnectPrompts(p)
    \/ \E p \in Procs, cid \in ConnIds : DisconnectStart(p, cid)
    \/ \E p \in Procs : DisconnectAclose(p)
    \/ \E p \in Procs : DisconnectDel(p)
    \/ \E p \in Procs : ExecuteStart(p, UnknownName)
    \/ \E p \in Procs : \E i \in 1..Len(get_all_tools(connections).tool_map) :
          ExecuteStart(p, get_all_tools(connections).tool_map[i].key)
    \/ \E p \in Procs : ExecuteReturn(p)

Spec == Init /\ [][Next]_vars

SpecAsync == InitAsync /\ [][Next]_vars

\* The manager's operations when a request can be abandoned.
NextCancel ==
    \/ Next
    \/ \E p \in Procs : ConnectCancelled(p)

SpecCancel == Init /\ [][NextCancel]_vars

NextCatalog == list_all_tools

SpecCatalog == InitCatalog /\ [][NextCatalog]_vars

NextChat ==
    \/ \E new_message \in NewMessages, provider \in RequestedProviders :
          chat_endpoint(new_message, provider)
    \/ \E tool_call_id \in ChatCallIds :
          execute_tool_endpoint(UnknownName, tool_call_id)
    \/ \E i \in 1..Len(get_all_tools(connections).tool_map), tool_call_id \in ChatCallIds :
          execute_tool_endpoint(get_all_tools(connections).tool_map[i].key, tool_call_id)
    \/ \E provider \in {GROQ, GEMINI} : switch_provider(provider)
    \/ stream_llm_response
    \/ StreamCreate
    \/ StreamFails
    \/ GroqChunk
    \/ GroqStreamEnd
    \/ GroqDone
    \/ GeminiChunk
    \/ GeminiPart
    \/ GeminiPersist
    \/ GeminiStreamEnd

SpecChat == InitChat /\ [][NextChat]_vars

NextSession ==
    \/ NextChat
    \/ \E message \in NewMessages : save_message(message)
    \/ \E tool_call_id \in ToolCallIds \ ChatCallIds :
          execute_tool_endpoint(UnknownName, tool_call_id)
    \/ \E i \in 1..Len(get_all_tools(connections).tool_map),
          tool_call_id \in ToolCallIds \ ChatCallIds :
          execute_tool_endpoint(get_all_tools(connections).tool_map[i].key, tool_call_id)
    \/ \E i \in 1..MaxTurns : TitleStart(i)
    \/ \E i \in 1..MaxTurns : TitleReturn(i)

SpecSession == InitSession /\ [][NextSession]_vars

NextAdapters == stream_groq_response \/ stream_gemini_response

SpecAdapters == InitAdapters /\ [][NextAdapters]_vars

NextFragments == groq_delta \/ groq_completed

SpecFragments == InitFragments /\ [][NextFragments]_vars

NextTranslate == build_groq_messages \/ build_gemini_history

SpecTranslate == InitTranslate /\ [][NextTranslate]_vars

NextStore ==
    \/ \E id \in StoredIds : db_add_message(id)
    \/ db_get_messages

SpecStore == InitStore /\ [][NextStore]_vars

NextSwitch == \E provider \in SwitchRequests : post_llm_switch(provider)

SpecSwitch == InitSwitch /\ [][NextSwitch]_vars

\* Reads of resources and prompts while sessions are being closed.
NextRead ==
    \/ \E p \in Procs, method \in ReadMethods, cid \in ConnIds : ReadStart(p, method, cid)
    \/ \E p \in Procs : ReadReturn(p)
    \/ \E p \in Procs, cid \in ConnIds : DisconnectStart(p, cid)
    \/ \E p \in Procs : DisconnectAclose(p)
    \/ \E p \in Procs : DisconnectDel(p)

SpecRead == InitRead /\ [][NextRead]_vars

\* ------------------------------------------------------------------ claims
\* The connect that finished last failed / succeeded.
FailedConnect == last.op = "connect" /\ ~last.ok
SucceededConnect == last.op = "connect" /\ last.ok

\* This step ends a connect with a failure / with a registration.
ConnectFails == last' # last /\ last'.op = "connect" /\ ~last'.ok
ConnectSucceeds == last' # last /\ last'.op = "connect" /\ last'.ok

\* This step belongs to a connect (the clients send one request at a time).
ConnectStep == ConnectFails \/ ConnectSucceeds
               \/ \E p \in Procs : pc[p] \in ConnectPcs \/ pc'[p] \in ConnectPcs

\* The dict without the entry of key k.
Without(d, k) == SelectSeq(d, LAMBDA e : e.key # k)

\* C1: when connect fails, whatever the step (validation, transport open,
\* session, handshake timeout), every context the attempt had entered is
\* exited, newest first, before the error is raised: the contexts exited are
\* those held, in reverse order of entry, and the attempt's exit stack is
\* empty from then on.
C1_FailedConnectReleasesInReverse ==
    FailedConnect =>
        /\ last.released = Reverse(last.held)
        /\ exit_stack[last.sid] = <<>>

\* C1 witness: a handshake timeout on a pipe transport, which had entered
\* three contexts (stdio_client twice and the session).
C1_Witness ==
    FailedConnect /\ last.cause = "timeout" /\ Len(last.held) = 3

\* C2: when connect fails, no session of that attempt is in the registry,
\* and no step of a connect other than the registration that ends a
\* successful one changes the registry: after a failed connect the registry
\* is what it was before the call.
C2_FailedConnectRegistersNothing ==
    /\ [](FailedConnect =>
            \A i \in 1..Len(connections) : connections[i].sid # last.sid)
    /\ [][(ConnectStep /\ ~ConnectSucceeds) => connections' = connections]_vars

\* C2 witness: a connect under an id that is registered fails after it had
\* opened resources; the id's earlier entry is still there.
C2_Witness ==
    FailedConnect /\ last.held # <<>> /\ HasKey(connections, last.cid)

\* C3: a successful connect leaves exactly one entry for its id, holding the
\* session just created (whose contexts are open); the step that registers
\* it exits no context, so the session of an entry it replaces stays open.
C3_SuccessfulConnectRegistersOne ==
    /\ [](SucceededConnect =>
            /\ CountKey(connections, last.cid) = 1
            /\ Get(connections, last.cid).sid = last.sid
            /\ exit_stack[last.sid] # <<>>
            /\ last.replaced # 0 =>
                 /\ last.replaced # last.sid
                 /\ exit_stack[last.replaced] # <<>>
                 /\ \A i \in 1..Len(connections) : connections[i].sid # last.replaced)
    /\ [][ConnectSucceeds =>
            /\ exit_stack' = exit_stack
            /\ Without(connections', last'.cid) = Without(connections, last'.cid)]_vars

\* C3 witness: a connect succeeded under an id that already had an entry.
C3_Witness ==
    SucceededConnect /\ last.replaced # 0

\* This step is a disconnect returning to its caller.
DisconnectReturns ==
    /\ last'.op = "disconnect"
    /\ nOps' # nOps \/ \E p \in Procs : pc[p] = "d_aclose" /\ pc'[p] = "idle"

C5_PyTargetSelectsStdio ==
    \A p \in Procs :
        (pc[p] = "c_open" /\ EndsWith(loc[p].reqTarget, ".py")) =>
            loc[p].ctx = "stdio_client"

\* C6 (as stated): for every target without "gitmcp.io" and without an
\* http:// or https:// prefix, whatever the kind supplied, connect never
\* enters sse_client or streamable_http_client on it.
C6_LocalTargetForcesStdio ==
    \A p \in Procs :
        (/\ pc[p] = "c_open"
         /\ ~Contains(loc[p].reqTarget, "gitmcp.io")
         /\ ~HasHttpPrefix(loc[p].reqTarget)) =>
            loc[p].ctx \notin {"sse_client", "streamable_http_client"}

Discovered(category) ==
    IF category \in last.failed THEN <<>> ELSE last.srv[category]

\* C8: a connect whose session initialized succeeds and is registered
\* whatever fetches fail, each category holding the server's list unless its
\* own fetch failed, and the empty list if it did.
C8_DiscoveryIsIndependent ==
    /\ SucceededConnect =>
         /\ HasKey(connections, last.cid)
         /\ Get(connections, last.cid).tools = Discovered("tools")
         /\ Get(connections, last.cid).resources = Discovered("resources")
         /\ Get(connections, last.cid).prompts = Discovered("prompts")
    /\ \A p \in Procs : pc[p] \in {"c_resources", "c_prompts"} =>
         /\ loc[p].tools = IF "tools" \in loc[p].failed THEN <<>> ELSE loc[p].srv.tools
         /\ pc[p] = "c_prompts" =>
              loc[p].resources = IF "resources" \in loc[p].failed
                                 THEN <<>> ELSE loc[p].srv.resources

\* C8 witness: a connect succeeded although one of its fetches failed.
C8_Witness ==
    SucceededConnect /\ last.failed # {} /\ last.failed # {"tools", "resources", "prompts"}

\* The kind of failure connect raises for a failure other than a timeout.
GenericKind ==
    LET g == ConnectFailed(OtherError("transport_failed")) IN << g.exc, g.status >>

\* C9 (as stated): the failure connect raises for a handshake timeout is of
\* another kind than the one it raises for its other failures.
C9_TimeoutIsDistinctKind ==
    (FailedConnect /\ last.cause = "timeout") =>
        << last.raised.exc, last.raised.status >> # GenericKind

\* C10: execute on a name that is not in the tool map returns the "not
\* found" text and raises nothing, sends no call to any session (no request
\* is ever suspended in call_tool for such a name), and the step changes
\* neither the registry nor any session's contexts.
C10_UnknownToolIsAnErrorString ==
    /\ []((last.op = "execute" /\ ~last.known) =>
            /\ last.text = [kind |-> "tool_not_found"]
            /\ last.raised = None
            /\ last.sid = 0)
    /\ [](\A p \in Procs : pc[p] = "e_call" => loc[p].known)
    /\ [][(nOps' # nOps /\ last'.op = "execute" /\ ~last'.known) =>
            UNCHANGED << connections, exit_stack, pc, loc >>]_vars

\* C10 witness: the unknown name was executed while a connection with a
\* tool was registered.
C10_Witness ==
    /\ last.op = "execute" /\ ~last.known
    /\ get_all_tools(connections).tool_map # <<>>

\* The texts by which execute_tool reports a failure.
FailureTexts == {[kind |-> "tool_not_found"], [kind |-> "connection_lost"],
                 [kind |-> "tool_execution_error"], [kind |-> "tool_exception"]}

\* C11: every execute returns a text and raises nothing; an unknown name,
\* an execution error reported by the tool, an exception thrown by the call
\* and a call on a session that was closed while the call was in flight are
\* each returned as the failure text of their kind.
C11_ExecuteFailuresAreTexts ==
    last.op = "execute" =>
        /\ last.raised = None
        /\ last.text # None
        /\ ~last.known => last.text = [kind |-> "tool_not_found"]
        /\ (last.known /\ last.sid = 0) => last.text = [kind |-> "connection_lost"]
        /\ last.sid # 0 =>
             /\ last.result.threw => last.text = [kind |-> "tool_exception"]
             /\ (~last.result.threw /\ last.result.isError) =>
                    last.text = [kind |-> "tool_execution_error"]
             /\ last.closed => last.text = [kind |-> "tool_exception"]
             /\ (last.text \in FailureTexts) <=>
                    (last.result.threw \/ last.result.isError)

\* C11 witness: an execute has returned whose session was closed by a
\* disconnect while the call was in flight.
C11_Witness ==
    last.op = "execute" /\ last.sid # 0 /\ last.closed

\* The execute that finished last was a successful call with an output of
\* n characters.
ExecutedOutput(n) ==
    /\ last.op = "execute" /\ last.sid # 0
    /\ ~last.result.threw /\ ~last.result.isError
    /\ last.result.len = n

\* C12 (as stated): an output longer than MAX_TOOL_RESULT_LENGTH is returned
\* as its first MAX_TOOL_RESULT_LENGTH characters and the banner with both
\* lengths; every output of at most that length is returned unchanged.
C12_TruncateOrUnchanged ==
    \A n \in OutputLengths :
        ExecutedOutput(n) =>
            IF n > MAX_TOOL_RESULT_LENGTH
            THEN /\ last.text.kind = "truncated"
                 /\ last.text.shown = MAX_TOOL_RESULT_LENGTH
                 /\ last.text.banner = [original |-> n,
                                        displayed |-> MAX_TOOL_RESULT_LENGTH]
            ELSE last.text = [kind |-> "output", len |-> n]

\* C12 (amended): as stated for an output that is not empty; an empty output
\* is returned as the success marker.
C12_TruncateOrUnchangedUnlessEmpty ==
    \A n \in OutputLengths :
        ExecutedOutput(n) =>
            IF n > MAX_TOOL_RESULT_LENGTH
            THEN /\ last.text.kind = "truncated"
                 /\ last.text.shown = MAX_TOOL_RESULT_LENGTH
                 /\ last.text.banner = [original |-> n,
                                        displayed |-> MAX_TOOL_RESULT_LENGTH]
            ELSE IF n > 0
            THEN last.text = [kind |-> "output", len |-> n]
            ELSE last.text = [kind |-> "success_marker"]

\* C12 witness: a call has returned an output of exactly
\* MAX_TOOL_RESULT_LENGTH characters.
C12_Witness ==
    ExecutedOutput(MAX_TOOL_RESULT_LENGTH)

\* The length the name of (conn_id, tool_name) has before it is cut.
UncutLen(conn_id, tool_name) ==
    LET first == IF conn_id = <<>> THEN "_" ELSE conn_id[1]
    IN Len(conn_id) + 2 + Len(tool_name)
       + (IF first \in Letters THEN 0 ELSE Len(<< "a", "c", "t", "i", "o", "n", "_" >>))

\* C14: every name of the catalog starts with an ASCII letter, holds only
\* ASCII letters, digits and underscores and has between 1 and 63
\* characters, whatever the connection id and the tool's name; a name that
\* would be longer than 63 characters has exactly 63.
C14_CatalogNamesAreWellFormed ==
    (probe # None /\ probe.answered) =>
        /\ Len(probe.tools) = 1
        /\ LET name == probe.tools[1].name
               conn == probe.connections[1]
           IN /\ Len(name) >= 1 /\ Len(name) <= MaxNameLen
              /\ name[1] \in Letters
              /\ \A i \in 1..Len(name) : name[i] \in Letters \cup Digits \cup {"_"}
              /\ UncutLen(conn.key, conn.tools[1]) > MaxNameLen => Len(name) = MaxNameLen
              /\ UncutLen(conn.key, conn.tools[1]) <= MaxNameLen =>
                    Len(name) = UncutLen(conn.key, conn.tools[1])

\* C14 witness: a name was cut that starts with a digit, so that it got the
\* prefix as well.
C14_Witness ==
    /\ probe # None /\ probe.answered
    /\ probe.connections[1].key # <<>>
    /\ probe.connections[1].key[1] \in Digits
    /\ UncutLen(probe.connections[1].key, probe.connections[1].tools[1]) > MaxNameLen

\* The names of the catalog built from the registry.
CatalogNames == LET c == get_all_tools(connections).all_tools
                IN [i \in 1..Len(c) |-> c[i].name]

\* C15 (as stated): no two entries of the catalog have the same name.
C15_CatalogNamesAreUnique ==
    \A i, j \in 1..Len(CatalogNames) :
        CatalogNames[i] = CatalogNames[j] => i = j

\* The (connection id, tool name) pairs of the registry, in dict order and,
\* within a session, in the order of its tool list.
RECURSIVE RegisteredTools(_, _)
RegisteredTools(conns, i) ==
    IF i > Len(conns)
    THEN <<>>
    ELSE [k \in 1..Len(conns[i].tools) |->
             [connection_id |-> conns[i].key, real_name |-> conns[i].tools[k]]]
         \o RegisteredTools(conns, i + 1)

\* C16: in every state the registry can be in, the catalog has exactly one
\* entry per tool of each registered session, in registry order, and none
\* else; it is a function of the registry alone.
C16_CatalogReflectsRegistry ==
    LET reg == RegisteredTools(connections, 1) IN
    /\ Len(CatalogNames) = Len(reg)
    /\ \A i \in 1..Len(reg) :
          CatalogNames[i] = sanitized_name(reg[i].connection_id, reg[i].real_name)
    /\ \A i \in 1..Len(reg) : HasKey(connections, reg[i].connection_id)

\* C16 witness: a session was disconnected while another one with a tool
\* stays registered.
C16_Witness ==
    /\ last.op = "disconnect" /\ last.found
    /\ Len(CatalogNames) = 1

\* The events of a type the response has yielded.
EventsOf(type) == SelectSeq(events, LAMBDA e : e.type = type)

\* The rows the turn has stored, and whether the rows before it are as
\* they were when it began.
Added == SubSeq(messages, Len(turn.base) + 1, Len(messages))
BaseKept == Len(messages) >= Len(turn.base)
            /\ SubSeq(messages, 1, Len(turn.base)) = turn.base

\* The text the response has relayed: its text events, concatenated.
RECURSIVE Concat(_)
Concat(texts) == IF texts = <<>> THEN <<>> ELSE Head(texts).content \o Concat(Tail(texts))
Relayed == Concat(EventsOf("text"))

\* The stream of the turn ended with an approval request / without a call.
EndedWith(outcome) == turn.at = "closed" /\ turn.outcome = outcome

\* C13: execute never returns the empty text, so every tool-result row the
\* execute endpoint has stored, and every tool_result event it has yielded,
\* carries a result that is not blank: an empty output is the success marker.
C13_NoBlankToolResult ==
    /\ \A i \in 1..Len(messages) :
          messages[i].content.kind = "tool_output" =>
              ~IsEmptyText(messages[i].content.result)
    /\ \A i \in 1..Len(events) :
          events[i].type = "tool_result" => ~IsEmptyText(events[i].result)
    /\ \A text \in execute_tool(UnknownName) : ~IsEmptyText(text)

\* C13 witness: the row of a call that succeeded with no output.
C13_Witness ==
    \E i \in 1..Len(messages) :
        /\ messages[i].is_tool_result
        /\ messages[i].content = ToolOutput(sanitized_name(<< "a", "-" >>, << "r" >>),
                                            [kind |-> "success_marker"])

\* C17: a turn whose stream ended with one accumulated tool call has
\* yielded exactly one tool_approval_request, for that call, directly
\* followed by the done sentinel as its last event, and has stored exactly
\* one assistant turn whose tool-call list is that one call, with the text
\* relayed; with either provider.
C17_OneCallOneApprovalOneRow ==
    (EndedWith("approval") /\ Len(turn.calls) = 1) =>
        /\ Len(EventsOf("tool_approval_request")) = 1
        /\ Len(events) >= 2
        /\ events[Len(events)] = DoneEvent
        /\ events[Len(events) - 1] = ApprovalEvent(turn.calls[1])
        /\ Len(EventsOf("done")) = 1
        /\ Len(EventsOf("error")) = 0
        /\ BaseKept
        /\ Len(Added) = 1
        /\ Added[1].role = (IF turn.provider = GROQ THEN "assistant" ELSE "model")
        /\ Added[1].toolCalls = turn.calls
        /\ Added[1].content = Text(Relayed)
        /\ ~Added[1].is_tool_result

\* C17 witness: Groq delivered the one call in two fragments, whose
\* argument strings parse together.
C17_Witness ==
    /\ EndedWith("approval")
    /\ turn.provider = GROQ
    /\ turn.calls = << [id |-> "c0", name |-> "f", args |-> {"k"}] >>

\* C18: when the model requested several tool calls in a turn, exactly one
\* tool_approval_request has been yielded, and it is for the first call.
C18_OnlyFirstCallSurfaced ==
    (EndedWith("approval") /\ turn.requested >= 2) =>
        /\ Len(EventsOf("tool_approval_request")) = 1
        /\ EventsOf("tool_approval_request")[1] = ApprovalEvent(turn.calls[1])

\* C18 witness: Groq accumulated two calls.
C18_Witness ==
    /\ EndedWith("approval")
    /\ turn.provider = GROQ
    /\ Len(turn.calls) = 2

\* C19: a turn whose stream ended without a tool call has stored exactly
\* one assistant turn holding the relayed text if that text is not empty
\* and nothing if it is, has yielded no tool_approval_request and no error,
\* and its last event is the done sentinel.
C19_NoCallStoresFinalText ==
    EndedWith("done") =>
        /\ BaseKept
        /\ Added = IF Relayed # <<>>
                   THEN << Row(IF turn.provider = GROQ THEN "assistant" ELSE "model",
                               Text(Relayed), <<>>, FALSE) >>
                   ELSE <<>>
        /\ Len(EventsOf("tool_approval_request")) = 0
        /\ Len(EventsOf("error")) = 0
        /\ Len(EventsOf("done")) = 1
        /\ events[Len(events)] = DoneEvent

\* C19 witness: a turn ended with [DONE] alone, nothing relayed or stored.
C19_Witness ==
    /\ EndedWith("done")
    /\ Relayed = <<>>
    /\ Added = <<>>

\* C20 (as stated): a turn that failed while its request was built or its
\* stream was read has yielded exactly one error event and has stored
\* nothing, the rows before it being as they were.
C20_FailureIsOneErrorEvent ==
    (turn.at = "closed" /\ turn.outcome \in {"build_raised", "stream_raised"}) =>
        /\ Len(EventsOf("error")) = 1
        /\ messages = turn.base

\* C21 (as stated): the events of every streamed response end with the done
\* sentinel: after a text turn, after an approval request, after an error
\* event and when the translated history is empty.
C21_EveryStreamEndsWithDone ==
    (turn.at = "closed" /\ turn.outcome # "http_500") =>
        /\ events # <<>>
        /\ events[Len(events)] = DoneEvent

\* C30 (as stated): whenever a tool_approval_request has been yielded, the
\* history already holds the assistant turn of this response that carries
\* the call; with either provider.
C30_RowBeforeApproval ==
    \A i \in 1..Len(events) :
        events[i].type = "tool_approval_request" =>
            \E j \in 1..Len(Added) :
                \E k \in 1..Len(Added[j].toolCalls) :
                    Added[j].toolCalls[k] = events[i].tool

\* The response is the one of an execute request and its request to the
\* provider has been built.
ReEntered ==
    /\ turn.at \in {"create", "stream"}
    /\ events # <<>>
    /\ events[1].type = "tool_result"

\* The request the adapter would have built before the last row was stored.
RequestBefore ==
    build_request(turn.provider, SubSeq(turn.base, 1, Len(turn.base) - 1),
                  get_all_tools(connections).all_tools)

\* C22 (as stated): the request built after a tool-result turn was appended
\* is one message longer than the request of the history before the append,
\* and its last message carries the id of the call the result belongs to;
\* with either provider.
C22_ReEntryAddsLinkedMessage ==
    (ReEntered /\ ~RequestBefore.raised) =>
        /\ Len(turn.request) = Len(RequestBefore.messages) + 1
        /\ SubSeq(turn.request, 1, Len(turn.request) - 1) = RequestBefore.messages
        /\ turn.request[Len(turn.request)].tool_call_id
              = turn.base[Len(turn.base)].tool_call_id

\* C26 (as stated): every step that changes the history of the session
\* appends exactly one turn to it and leaves the turns it held as they were
\* and where they were.
C26_HistoryIsAppendOnly ==
    [][messages' # messages =>
          /\ Len(messages') = Len(messages) + 1
          /\ SubSeq(messages', 1, Len(messages)) = messages]_vars

\* The types of a sequence of events.
TypesOf(evs) == [i \in 1..Len(evs) |-> evs[i].type]

\* C23 (as stated): given the same history, catalog and provider outputs,
\* the two adapters yield events of the same types in the same order.
C23_AdaptersYieldSameShape ==
    (probe.groq.ran /\ probe.gemini.ran) =>
        /\ probe.groq.raised = probe.gemini.raised
        /\ TypesOf(probe.groq.events) = TypesOf(probe.gemini.events)

\* Request p is suspended inside a connect or a disconnect of connection cid.
Mutating(p, cid) ==
    /\ pc[p] # "idle"
    /\ loc[p].op \in {"connect", "disconnect"}
    /\ loc[p].cid = cid

\* C24 (as stated): no two connect or disconnect operations on the same
\* connection id are in progress at the same time.
C24_MutationsExcludePerId ==
    \A p, q \in Procs, cid \in ConnIds :
        (Mutating(p, cid) /\ Mutating(q, cid)) => p = q

\* C25 (as stated): the session that the lookup of an execute finds in the
\* registry is open: none of its contexts has been exited.
C25_LookupFindsOpenSession ==
    [][\A p \in Procs :
          (pc[p] = "idle" /\ pc'[p] = "e_call") =>
              /\ SessionOpen(loc'[p].sid)
              /\ \E i \in 1..Len(exit_stack[loc'[p].sid]) :
                    exit_stack[loc'[p].sid][i].kind = "transport"]_vars


\* C29: read_resource and get_prompt on a connection id that is not
\* registered raise ValueError("Connection not found") at once: no session is
\* asked, the request is not suspended, and the registry and the exit stacks
\* are what they were; a request is suspended on a session only if its id
\* was registered.
C29_AbsentIdIsNotFound ==
    [][(nOps' = nOps + 1) =>
          /\ \A p \in Procs : (pc[p] = "idle" /\ pc'[p] = "r_call") =>
                /\ HasKey(connections, loc'[p].cid)
                /\ loc'[p].sid = Get(connections, loc'[p].cid).sid
          /\ (last'.op \in ReadMethods /\ ~HasKey(connections, last'.cid)) =>
                /\ last'.raised = ValueError("Connection not found")
                /\ last'.sid = 0
                /\ last'.text = None
                /\ pc' = pc
                /\ connections' = connections
                /\ exit_stack' = exit_stack]_vars

\* A read of an id that had been registered and was disconnected is refused.
C29_Witness ==
    /\ last.op \in ReadMethods
    /\ ~last.found
    /\ last.raised = ValueError("Connection not found")
    /\ last.cid = << "a", "-" >>
    /\ nextSid = 2
    /\ connections = <<>>

\* The title tasks that are waiting on the provider.
Calling == { i \in 1..Len(title.tasks) : title.tasks[i].at = "calling" }

\* C27: a title task is queued only by a chat request that finds the
\* session without any row of an earlier turn, and a request queues at most
\* one.
C27_TitleOnlyOnFirstTurn ==
    [][Len(title'.tasks) # Len(title.tasks) =>
          /\ messages = <<>>
          /\ Len(title'.tasks) = Len(title.tasks) + 1]_vars

\* A step of a title task (it starts its call, or the call is over)
\* changes the title and the task, not the rows, the events or the response.
TitleTaskWritesTitleOnly ==
    [][(Len(title'.tasks) = Len(title.tasks) /\ title' # title /\ turn'.n = turn.n) =>
          (messages' = messages /\ events' = events /\ turn' = turn)]_vars

\* A title task waiting on Gemini leaves the server able to serve a request.
AwaitedTitleCallYields ==
    (Calling # {} /\ ~Blocked) =>
        ENABLED (\E provider \in {GROQ, GEMINI} : switch_provider(provider))

\* C28, the part about other requests: while a title task waits on the
\* provider, the server can serve another request (the task's steps leave
\* rows, events and response alone: TitleTaskWritesTitleOnly).
C28_TitleNeverBlocks ==
    Calling # {} => ENABLED (\E provider \in {GROQ, GEMINI} : switch_provider(provider))
\* C40: ACTIVE_PROVIDER is unset or names a provider whose client exists;
\* a switch to a provider that is unknown or has no client is answered 400
\* and leaves ACTIVE_PROVIDER as it was; every other switch is answered 200
\* and makes the named provider active.
C40_ActiveProviderHasClient ==
    /\ llm.active = "none" \/ llm.active \in llm.clients
    /\ \A i \in 1..Len(probe) :
          IF probe[i].provider \in llm.clients
          THEN probe[i].answer = Switched(probe[i].provider) /\ probe[i].after = probe[i].provider
          ELSE probe[i].answer = NotAvailable(probe[i].provider) /\ probe[i].after = probe[i].before

\* Both clients exist: Gemini was made active in place of Groq, and a
\* switch to an unknown provider was refused and left Gemini active.
C40_Witness ==
    /\ Len(probe) >= 2
    /\ probe[1].answer = Switched(GEMINI) /\ probe[1].before = GROQ /\ probe[1].after = GEMINI
    /\ probe[2].answer = NotAvailable("other") /\ probe[2].after = GEMINI
    /\ llm.active = GEMINI

\* C31: a connect that was cancelled has released what it had acquired, in
\* reverse order of acquisition, as a connect that failed has.
C31_CancelledConnectReleases ==
    (last.op = "connect" /\ ~last.ok /\ last.raised = CancelledError) =>
        /\ exit_stack[last.sid] = <<>>
        /\ last.released = AcloseOrder(last.held)

\* The transport channels an exit stack holds.
Transports(stack) == { i \in 1..Len(stack) : stack[i].kind = "transport" }

\* C35: when a connect over stdio returns successfully, its exit stack
\* holds exactly one transport channel (one server process), entered before
\* the session.
C35_StdioOpensOneTransport ==
    [][\A p \in Procs :
          (pc[p] = "c_prompts" /\ pc'[p] = "idle" /\ last'.op = "connect" /\ last'.ok
             /\ loc[p].ctx = "stdio_client") =>
                Cardinality(Transports(exit_stack'[loc[p].sid])) = 1]_vars

\* C36: when disconnect returns, the entry it removes is the one of the
\* session it has closed: an entry that a connect on the same id registered
\* in the meantime, for another session, stays registered.
C36_DisconnectRemovesOwnEntry ==
    [][\A p \in Procs :
          (pc[p] = "d_aclose" /\ pc'[p] = "idle" /\ HasKey(connections, loc[p].cid)
             /\ Get(connections, loc[p].cid).sid # loc[p].sid) =>
                /\ HasKey(connections', loc[p].cid)
                /\ Get(connections', loc[p].cid) = Get(connections, loc[p].cid)]_vars

\* The Groq adapter translates the assistant turns of both origins as
\* assistant messages.
GroqKeepsAssistantRole ==
    \A history \in EarlierHistories :
        LET h == groq_history(history, 1) IN
        \A k \in 1..Len(h.messages) :
            history[h.messages[k].row].role \in {"assistant", "model"} =>
                h.messages[k].role = "assistant"

\* C37: in the request an adapter has built from the history, the message
\* made from an assistant turn (stored with role 'assistant' by the Groq
\* adapter, 'model' by the Gemini adapter) has the role assistant or model.
C37_AssistantRoleIsKept ==
    turn.at \in {"create", "stream"} =>
        \A k \in 1..Len(turn.request) :
            LET m == turn.request[k] IN
            (m.row > 0 /\ turn.base[m.row].role \in {"assistant", "model"}
                /\ ~turn.base[m.row].is_tool_result) =>
                    m.role \in {"assistant", "model"}

\* The adapter that stored an assistant turn: Gemini's rows have the role
\* 'model', Groq's the role 'assistant'.
AdapterOf(role) == IF role = "model" THEN GEMINI ELSE GROQ

\* C38: the response of an execute request, which continues the turn whose
\* tool call was approved, is streamed by the adapter that streamed that
\* turn (whose client exists).
C38_ResumedBySameAdapter ==
    (/\ ReEntered
     /\ Len(turn.base) >= 2
     /\ turn.base[Len(turn.base) - 1].toolCalls # <<>>
     /\ AdapterOf(turn.base[Len(turn.base) - 1].role) \in llm.clients) =>
        turn.provider = AdapterOf(turn.base[Len(turn.base) - 1].role)

\* The rows execute_tool_endpoint stored carry the id of a call of an
\* assistant turn stored before them.
ExecutedResultsAreLinked ==
    \A i \in 1..Len(messages) :
        (messages[i].is_tool_result /\ messages[i].tool_call_id # "none") =>
            \E j \in 1..(i - 1) : \E k \in 1..Len(messages[j].toolCalls) :
                messages[j].toolCalls[k].id = messages[i].tool_call_id

\* C39: every tool-result turn of the history carries the id of a call of
\* an assistant turn stored before it, and no two tool-result turns carry
\* the same id.
C39_ToolResultsAreLinked ==
    \A i \in 1..Len(messages) :
        messages[i].is_tool_result =>
            /\ \E j \in 1..(i - 1) : \E k \in 1..Len(messages[j].toolCalls) :
                  messages[j].toolCalls[k].id = messages[i].tool_call_id
            /\ \A j \in 1..Len(messages) :
                  (j # i /\ messages[j].is_tool_result) =>
                      messages[j].tool_call_id # messages[i].tool_call_id

\* With a clock that advances before every insert, get_messages returns
\* the turns in the order in which they were appended.
OrderedUnderAdvancingClock ==
    (probe.read /\ probe.strict) => probe.got = probe.appended

\* get_messages has answered a session with three turns stored at advancing
\* clock readings.
OrderedUnderAdvancingClockWitness ==
    probe.read /\ probe.strict /\ Len(probe.got) = 3

\* C34: get_messages returns the turns in the order in which they were
\* appended, whatever the clock read at the inserts.
C34_InsertionOrderIsKept ==
    probe.read => probe.got = probe.appended

\* The fragments of the deltas from delta i on, in arrival order.
RECURSIVE FragmentsFrom(_, _)
FragmentsFrom(deltas, i) ==
    IF i > Len(deltas) THEN <<>> ELSE deltas[i].tool_calls \o FragmentsFrom(deltas, i + 1)

\* The ids, the names and the argument strings of the fragments of an
\* index, from fragment i on, concatenated.
RECURSIVE JoinedId(_, _, _)
JoinedId(fragments, index, i) ==
    IF i > Len(fragments) THEN ""
    ELSE (IF fragments[i].index = index THEN fragments[i].id ELSE "")
         \o JoinedId(fragments, index, i + 1)

RECURSIVE JoinedName(_, _, _)
JoinedName(fragments, index, i) ==
    IF i > Len(fragments) THEN ""
    ELSE (IF fragments[i].index = index THEN fragments[i].name ELSE "")
         \o JoinedName(fragments, index, i + 1)

RECURSIVE JoinedArguments(_, _, _)
JoinedArguments(fragments, index, i) ==
    IF i > Len(fragments) THEN <<>>
    ELSE (IF fragments[i].index = index THEN fragments[i].arguments ELSE <<>>)
         \o JoinedArguments(fragments, index, i + 1)

\* The id and the name that the fragments of an index gave last, from
\* fragment i on ("" is an absent one).
RECURSIVE LastId(_, _, _, _)
LastId(fragments, index, i, id) ==
    IF i > Len(fragments) THEN id
    ELSE LastId(fragments, index, i + 1,
                IF fragments[i].index = index /\ fragments[i].id # ""
                THEN fragments[i].id ELSE id)

RECURSIVE LastName(_, _, _, _)
LastName(fragments, index, i, name) ==
    IF i > Len(fragments) THEN name
    ELSE LastName(fragments, index, i + 1,
                  IF fragments[i].index = index /\ fragments[i].name # ""
                  THEN fragments[i].name ELSE name)

\* The indexes in the order of their first fragment, from fragment i on.
RECURSIVE IndexesFrom(_, _, _)
IndexesFrom(fragments, i, seen) ==
    IF i > Len(fragments) THEN seen
    ELSE IndexesFrom(fragments, i + 1,
                     IF \E k \in 1..Len(seen) : seen[k] = fragments[i].index
                     THEN seen ELSE Append(seen, fragments[i].index))

\* C32 (amended): when the stream has ended there is one completed call per
\* index, in the order of the indexes' first fragments; its argument string
\* is the concatenation, in arrival order, of the argument fragments of its
\* index (and its args that string parsed); its id and its name are the
\* last id and the last name a fragment of its index carried.
C32_FragmentsAccumulatePerIndex ==
    probe.ended =>
        LET fragments == FragmentsFrom(probe.deltas, 1)
            indexes == IndexesFrom(fragments, 1, <<>>)
        IN /\ Len(probe.tool_calls_list) = Len(indexes)
           /\ \A i \in 1..Len(indexes) :
                 /\ probe.tool_calls_buffer[i].key = indexes[i]
                 /\ probe.tool_calls_buffer[i].arguments
                       = JoinedArguments(fragments, indexes[i], 1)
                 /\ probe.tool_calls_list[i].args
                       = parse_args(JoinedArguments(fragments, indexes[i], 1))
                 /\ probe.tool_calls_list[i].id = LastId(fragments, indexes[i], 1, "")
                 /\ probe.tool_calls_list[i].name = LastName(fragments, indexes[i], 1, "")

\* The fragments of call 0 arrived around one of call 1: its arguments in
\* two pieces, its id in two pieces.
C32_Witness ==
    /\ probe.ended
    /\ Len(probe.tool_calls_list) = 2
    /\ probe.tool_calls_list[1].id = "0"
    /\ probe.tool_calls_buffer[1].arguments = << "{", "k" >>
    /\ probe.tool_calls_list[2].name = "h"
    /\ probe.deltas[2].tool_calls[1].index = 1

\* C32 (as stated): when the stream has ended, the id, the name and the argument string
\* of every completed call are the concatenations, in arrival order, of the
\* id, name and argument fragments of its index.
C32_FragmentsAreConcatenated ==
    probe.ended =>
        \A i \in 1..Len(probe.tool_calls_list) :
            LET index == probe.tool_calls_buffer[i].key
                fragments == FragmentsFrom(probe.deltas, 1)
            IN /\ probe.tool_calls_list[i].id = JoinedId(fragments, index, 1)
               /\ probe.tool_calls_list[i].name = JoinedName(fragments, index, 1)
               /\ probe.tool_calls_buffer[i].arguments = JoinedArguments(fragments, index, 1)

\* What a translated tool-result turn carries to the provider: the content
\* of Groq's tool message, the result of Gemini's function response.
Passed(message) ==
    IF "content" \in DOMAIN message THEN message.content ELSE message.response

\* A translation gives every tool-result row of the history one turn, and
\* that turn carries the row's content when it has at most 8000 characters,
\* and else its first 8000 characters and a marker stating its length.
CappedAt8000(translation) ==
    translation.built /\ ~translation.raised =>
        \A i \in 1..Len(probe.raw_history) :
            probe.raw_history[i].is_tool_result =>
                LET content == probe.raw_history[i].content
                    turns == { k \in 1..Len(translation.messages) :
                                 translation.messages[k].row = i }
                IN /\ Cardinality(turns) = 1
                   /\ \A k \in turns :
                        IF content_len(content) > 8000
                        THEN /\ Passed(translation.messages[k]).kind = "cut"
                             /\ Passed(translation.messages[k]).of = content
                             /\ Passed(translation.messages[k]).shown = 8000
                             /\ Passed(translation.messages[k]).marker.total
                                   = content_len(content)
                        ELSE Passed(translation.messages[k]) = content

\* C33: in the request either adapter builds, every tool-result turn of the
\* history carries its content capped at 8000 characters: the first 8000
\* characters and a truncation marker when the content is longer, the
\* content unchanged when it has at most 8000 characters.
C33_ToolResultsAreCapped ==
    /\ CappedAt8000(probe.groq_messages)
    /\ CappedAt8000(probe.gemini_history)

\* Both adapters have translated a history with a tool result of exactly
\* 8000 characters, passed whole, and one of 8001 characters, cut.
C33_Witness ==
    /\ probe.groq_messages.built /\ probe.gemini_history.built
    /\ Len(probe.raw_history) = 2
    /\ probe.raw_history[1].content = Chars(8000)
    /\ probe.raw_history[2].content = Chars(8001)
    /\ probe.groq_messages.messages[1].content = Chars(8000)
    /\ probe.gemini_history.messages[1].response = Chars(8000)
    /\ probe.groq_messages.messages[2].content.kind = "cut"
    /\ probe.gemini_history.messages[2].response.kind = "cut"
====
